---- MODULE Spec2Model ----
(***************************************************************************)
(* Tara: the interaction component registry (tara/src/componet.rs) and the *)
(* length-prefixed IPC client/server (tara-util/src/ipc/mod.rs).           *)
(*                                                                         *)
(* The two subsystems share no state.  SpecReg is the registry with its    *)
(* timeout_watcher task and a set of caller tasks; SpecIpc is start_server *)
(* with client handles and the tasks that share them.                      *)
(***************************************************************************)
EXTENDS Integers, Sequences, FiniteSets, TLC

(***************************************************************************)
(* Registry: bounds and constants                                          *)
(***************************************************************************)

\* Duration::minutes(10) added by insert; the clock of the model counts minutes.
TTL == 10

\* The clock advances in steps of one TTL and stops at MaxTime.
ClockStep == TTL

MaxTime == 10

\* Number of insert and timeout calls in one behaviour.
MaxOps == 3

\* Custom ids used by the callers.
Ids == {"a", "b"}

\* Caller tasks (interaction handlers, commands) that use the registry.
Tasks == {"t1", "t2"}

\* Absent DateTime (no entry in timeout_map, no value recorded).
NoTime == -1

\* Absent entry of component_map.
NoReg == 0

\* Marks a timeout_map entry written by ComponentMap::timeout.
ByTimeout == -2

\* An insert call is a registration, named by its number.
Regs == 1..MaxOps

VARIABLES
    \* ---- registry state (ComponentInner) ----
    component_map,  \* id -> the (ComponentFn, Option<CleanupFn>) pair, named by its registration
    timeout_map,    \* id -> DateTime, NoTime when absent
    regId,          \* registration -> the id it was inserted under ("" while unused)
    regCleanup,     \* registration -> whether its Option<CleanupFn> is Some
    nextReg,        \* the next insert call's registration
    ops,            \* number of insert and timeout calls made
    now,            \* Utc::now()
    \* ---- caller tasks ----
    tpc,            \* task -> "idle" | "insert_timeout" | "handler" | "reinsert" | "reinsert_timeout"
    targ,           \* task -> the id argument of the call in progress
    treg,           \* task -> the registration the call inserted / whose handler it runs
    \* ---- timeout_watcher task ----
    wpc,            \* "scan" | "kill" | "cleanup" | "unmap" | "sleep" | "returned"
    wnow,           \* the watcher's `now` of the current pass (NoTime between passes)
    kill_list,      \* the current pass's kill_list (a sequence of ids)
    wreg,           \* the registration whose cleanup the watcher is awaiting
    \* ---- history (not program state) ----
    cleanups,       \* registration -> number of invocations of its cleanup
    overwritten,    \* registrations replaced in component_map by a later insert
    expiresAt,      \* registration -> the expires_at its insert gave it (NoTime before that)
    tmWriter,       \* id -> who wrote its timeout_map entry: a registration's insert, or ByTimeout
    reapedEarly,    \* registrations the watcher removed before their own expires_at
    timedOut        \* registrations on which timeout(id) was called after their insert returned

regVars == <<component_map, timeout_map, regId, regCleanup, nextReg, ops, now,
             tpc, targ, treg, wpc, wnow, kill_list, wreg,
             cleanups, overwritten, expiresAt, tmWriter, reapedEarly, timedOut>>

(***************************************************************************)
(* IPC: bounds and state                                                   *)
(***************************************************************************)

\* Number of client calls (send_action, send_actions, close) in one behaviour.
MaxCalls == 2

\* Client handles; each holds one connection made by Client::new.
Clients == {"A", "B"}

\* Tasks that call a Client; "p" and "q" hold clones of the same handle.
Callers == {"p", "q", "r"}

ClientOf(p) == IF p = "r" THEN "B" ELSE "A"

NoCaller == "-"

NoClient == "-"

VARIABLES
    \* ---- the connections ----
    cli,        \* client -> "new" | "open" | "dropped" | "failed": the client's end of its stream
    srv,        \* client -> "none" | "backlog" | "accepted" | "closed": the server's end
    c2s,        \* client -> frames written by the client, not yet read by the server
    s2c,        \* client -> frames written by the server, not yet read by the client
    lock,       \* client -> the caller holding the connection Mutex, or NoCaller
    \* ---- start_server ----
    spc,        \* "accept" | "accept_err" | "read" | "perform" | "write" | "write_end" | "break" | "returned"
    sconn,      \* the client whose connection `conn` is, or NoClient
    sreq,       \* the action frame read last
    sresp,      \* the ResponseMessage perform returned
    ended,      \* clients on whose connection the server has read EndTransmission
    \* ---- callers ----
    cpc,        \* caller -> "idle" | "lock" | "write" | "read" | "done" | "failed" | "gone"
    ckind,      \* caller -> "send_action" | "send_actions" | "close": the call it is in
    batch,      \* caller -> the actions of the call it is in
    responses,  \* caller -> the response frames its call has read so far
    ccall,      \* caller -> number of the call it is in (0 between calls)
    calls       \* number of calls started

ipcVars == <<cli, srv, c2s, s2c, lock, spc, sconn, sreq, sresp, ended,
             cpc, ckind, batch, responses, ccall, calls>>

(***************************************************************************)
(* The bind protocol of start_server (tara-util/src/ipc/mod.rs:74-95), run *)
(* by processes of the same executable against one socket path.  A process *)
(* is counted by current_process_instance_count (tara-util/src/lib.rs)     *)
(* from the moment it exists until it exits, whether or not its IPC task   *)
(* is still running: main.rs:171-176 only logs start_server's error.       *)
(***************************************************************************)

\* Processes of the executable.
Instances == {"i1", "i2"}

\* No file at socket_name.
NoFile == "-"

\* A socket file left behind by a run that ended before any modelled process.
Stale == "stale"

VARIABLES
    bpc,         \* instance -> "off" | "bind" | "count" | "remove" | "rebind" | "listening" | "failed"
    socket_file, \* NoFile, Stale, or the instance whose bind created the file at socket_name
    binds,       \* instance -> number of LocalSocketListener::bind calls of its start_server
    removed,     \* instance -> number of files its start_server has removed
    counted,     \* instance -> what current_process_instance_count returned to it (0: not called)
    berr,        \* instance -> the error its start_server returned, "" if none
    starts       \* number of processes started

bindVars == <<bpc, socket_file, binds, removed, counted, berr, starts>>

(***************************************************************************)
(* One direction of a stream carrying frames of SocketExt                  *)
(* (tara-util/src/ipc/socket.rs): a writer end and a reader end.           *)
(***************************************************************************)

VARIABLES
    fenum,      \* "" | "ActionMessage" | "ResponseMessage": the type T the stream carries
    wire,       \* the bytes written and not yet read
    wclosed,    \* the writer's end is closed: a read past the last byte is EOF
    inflight,   \* what was written and is not yet read, frame by frame
    got         \* the Result of the last read_serde

frameVars == <<fenum, wire, wclosed, inflight, got>>

(***************************************************************************)
(* One request in the hands of the bot's ActionReceiver (tara/src/ipc.rs)  *)
(* and of the server loop that called it.                                  *)
(***************************************************************************)

VARIABLES
    pdirs,      \* "" | "some" | "none": TARA_PROJECT_DIR, once the environment is known
    logfile,    \* the command log: whether it can be opened, and its rows
    paction,    \* the action the server read
    ppc,        \* "setup" | "idle" | "end" | "perform" | "read" | "respond" | "closed" | "panicked"
    pupper,     \* upper_cutoff as passed to get_command_logs1
    prec,       \* the row read_record reads next
    pevents,    \* command_events
    presp,      \* the ResponseMessage perform returned
    pout        \* the responses written for the request

performVars == <<pdirs, logfile, paction, ppc, pupper, prec, pevents, presp, pout>>

(***************************************************************************)
(* The music commands and track notifiers (tara/src/commands/music/mod.rs) *)
(* of one guild, and the three global mutexes they share.                  *)
(***************************************************************************)

\* Tasks that run a music command or a songbird track notifier.
MusicTasks == {"m1", "m2", "m3"}

NoTask == "-"

\* The statics, each an Arc<tokio::sync::Mutex<HashMap<..>>>.
Mutexes == {"CURRENTLY_PLAYING", "GUILD_TO_TRACK_MAP", "GUILD_CHANNEL_MAP"}

VARIABLES
    mpc,                 \* task -> "idle" or the .await the task is at
    mowner,              \* mutex -> the task holding its guard, or NoTask
    currently_playing,   \* CURRENTLY_PLAYING has the entry of the guild's track
    guild_to_track_map,  \* GUILD_TO_TRACK_MAP has the entry of the guild
    guild_channel_map    \* GUILD_CHANNEL_MAP has the entry of the guild's track

musicVars == <<mpc, mowner, currently_playing, guild_to_track_map, guild_channel_map>>

(***************************************************************************)
(* The image search command and its buttons (tara/src/commands/search).    *)
(***************************************************************************)

\* Button presses in one behaviour.
MaxPresses == 3

\* The (ChannelId, MessageId) pairs of the responses the command creates.
Umids == {<<1, 56>>, <<23, 4>>}

\* Lengths of the image lists a search returns (Search::run needs images[0]).
ImageCounts == 1..3

\* No entry of IMAGE_RESULTS.
NoResults == [n |-> 0, i |-> 0]

VARIABLES
    image_results,  \* IMAGE_RESULTS: Umid -> [n: images.len(), i: the current index], or NoResults
    component_ids,  \* the custom ids Search::run registered and nobody cleaned up yet
    presses,        \* number of button presses handled
    sevent          \* the handler that ran last and what came of it

searchVars == <<image_results, component_ids, presses, sevent>>

vars == <<regVars, ipcVars, bindVars, frameVars, performVars, musicVars, searchVars>>

\* What the actions of each part leave alone.
notRegVars == <<ipcVars, bindVars, frameVars, performVars, musicVars, searchVars>>

notIpcVars == <<regVars, bindVars, frameVars, performVars, musicVars, searchVars>>

notBindVars == <<regVars, ipcVars, frameVars, performVars, musicVars, searchVars>>

notFrameVars == <<regVars, ipcVars, bindVars, performVars, musicVars, searchVars>>

notPerformVars == <<regVars, ipcVars, bindVars, frameVars, musicVars, searchVars>>

notMusicVars == <<regVars, ipcVars, bindVars, frameVars, performVars, searchVars>>

notSearchVars == <<regVars, ipcVars, bindVars, frameVars, performVars, musicVars>>

(***************************************************************************)
(* Locks of ComponentInner                                                 *)
(***************************************************************************)

\* Tasks holding a read guard of component_map: run holds it across the handler,
\* and so across whatever the handler awaits.
Readers == {t \in Tasks : tpc[t] \in {"handler", "reinsert", "reinsert_timeout"}}

\* The write guard of component_map is held across a step only by the watcher,
\* whose guard is a temporary of the `if let` scrutinee and lives until the
\* end of the `if let`, that is across cleanup.run(...).await.
WriteLocked == wpc = "cleanup"

\* component_map.write().await is granted.
CanWrite == Readers = {} /\ ~WriteLocked

\* component_map.read().await is granted.
CanRead == ~WriteLocked

(***************************************************************************)
(* HashMap operations                                                      *)
(***************************************************************************)

\* An insert that leaves an existing entry in place.
MapInsertKeepsOld(m, k, v) == IF m[k] # NoReg THEN m ELSE [m EXCEPT ![k] = v]

MapInsert(m, k, v) == [m EXCEPT ![k] = v]

\* A removal that hands out the entry and leaves it in the map.
MapRemoveKeeps(m, k) == m

MapRemove(m, k) == [m EXCEPT ![k] = NoReg]

TimeInsert(m, k, v) == [m EXCEPT ![k] = v]

TimeRemove(m, k) == [m EXCEPT ![k] = NoTime]

\* The expiry insert gives: Utc::now() + Duration::minutes(10).
InsertExpiry(t) == t + TTL

\* The filter of the kill-list: time <= now.
Expired(time, at) == time # NoTime /\ time <= at

\* All orders in which a HashMap iteration can yield the set S.
RECURSIVE Orders(_)
Orders(S) ==
    IF S = {} THEN {<<>>}
    ELSE UNION {{<<x>> \o s : s \in Orders(S \ {x})} : x \in S}

(***************************************************************************)
(* Init                                                                    *)
(***************************************************************************)

RegInit ==
    /\ component_map = [i \in Ids |-> NoReg]
    /\ timeout_map = [i \in Ids |-> NoTime]
    /\ regId = [r \in Regs |-> ""]
    /\ regCleanup = [r \in Regs |-> FALSE]
    /\ nextReg = 1
    /\ ops = 0
    /\ now = 0
    /\ tpc = [t \in Tasks |-> "idle"]
    /\ targ = [t \in Tasks |-> ""]
    /\ treg = [t \in Tasks |-> NoReg]
    /\ wpc = "scan"
    /\ wnow = NoTime
    /\ kill_list = <<>>
    /\ wreg = NoReg
    /\ cleanups = [r \in Regs |-> 0]
    /\ overwritten = {}
    /\ expiresAt = [r \in Regs |-> NoTime]
    /\ tmWriter = [i \in Ids |-> NoReg]
    /\ reapedEarly = {}
    /\ timedOut = {}

\* No frame: the server holds no request.
NoFrame == [msg |-> "", call |-> 0, pos |-> 0, req |-> ""]

\* The listener is bound and no Client exists yet.
IpcInit ==
    /\ cli = [c \in Clients |-> "new"]
    /\ srv = [c \in Clients |-> "none"]
    /\ c2s = [c \in Clients |-> <<>>]
    /\ s2c = [c \in Clients |-> <<>>]
    /\ lock = [c \in Clients |-> NoCaller]
    /\ spc = "accept"
    /\ sconn = NoClient
    /\ sreq = NoFrame
    /\ sresp = ""
    /\ ended = {}
    /\ cpc = [p \in Callers |-> "idle"]
    /\ ckind = [p \in Callers |-> ""]
    /\ batch = [p \in Callers |-> <<>>]
    /\ responses = [p \in Callers |-> <<>>]
    /\ ccall = [p \in Callers |-> 0]
    /\ calls = 0

\* No process of the executable exists and nothing is at socket_name.
BindInit ==
    /\ bpc = [i \in Instances |-> "off"]
    /\ socket_file = NoFile
    /\ binds = [i \in Instances |-> 0]
    /\ removed = [i \in Instances |-> 0]
    /\ counted = [i \in Instances |-> 0]
    /\ berr = [i \in Instances |-> ""]
    /\ starts = 0

\* The ok arm and the error arms of Result<T, IpcErr>.
Ok(v) == [res |-> "Ok", val |-> v]

NoValue == [enum |-> "", variant |-> 0, a |-> <<>>, b |-> <<>>]

Err(kind) == [res |-> kind, val |-> NoValue]

\* A stream on which nothing has been written or read.
FrameInit ==
    /\ fenum = ""
    /\ wire = <<>>
    /\ wclosed = FALSE
    /\ inflight = <<>>
    /\ got = Err("")

\* The environment of the bot is not yet known and no request was read.
PerformInit ==
    /\ pdirs = ""
    /\ logfile = [exists |-> FALSE, rows |-> <<>>]
    /\ paction = NoValue
    /\ ppc = "setup"
    /\ pupper = <<>>
    /\ prec = 0
    /\ pevents = <<>>
    /\ presp = NoValue
    /\ pout = <<>>

\* The three maps are empty (Lazy::new(|| Arc::new(Mutex::new(HashMap::new())))).
MusicInit ==
    /\ mpc = [t \in MusicTasks |-> "idle"]
    /\ mowner = [m \in Mutexes |-> NoTask]
    /\ currently_playing = FALSE
    /\ guild_to_track_map = FALSE
    /\ guild_channel_map = FALSE

\* What a handler left behind: which one ran, for which custom id or message,
\* with which index before it, and how it ended.
Ran(seq, op, id, key, before, outcome) ==
    [seq |-> seq, op |-> op, id |-> id, key |-> key, before |-> before, outcome |-> outcome]

\* IMAGE_RESULTS is empty and no button exists.
SearchInit ==
    /\ image_results = [k \in Umids |-> NoResults]
    /\ component_ids = {}
    /\ presses = 0
    /\ sevent = Ran(0, "", <<>>, <<>>, 0, "")

Init == RegInit /\ IpcInit /\ BindInit /\ FrameInit /\ PerformInit /\ MusicInit /\ SearchInit

watcherVars == <<wpc, wnow, kill_list, wreg>>
taskVars == <<tpc, targ, treg>>
histVars == <<cleanups, overwritten, expiresAt, tmWriter, reapedEarly, timedOut>>

(***************************************************************************)
(* Caller operations                                                       *)
(***************************************************************************)

\* A call runs on a free task; idle tasks are interchangeable, so a new call
\* takes a fixed one of them.
Free(t) == tpc[t] = "idle" /\ t = CHOOSE u \in Tasks : tpc[u] = "idle"

\* The task is inside a handler that has called insert on the registry.
Nested(t) == tpc[t] \in {"reinsert", "reinsert_timeout"}

\* ComponentInner::insert, first statement: component_map.write().await.insert(id, (f, cf)).
\* The caller is a new call on a free task, or a handler that called insert.
InsertMap(t, id, cf) ==
    /\ IF tpc[t] = "reinsert"
       THEN UNCHANGED ops
       ELSE Free(t) /\ ops < MaxOps /\ ops' = ops + 1
    /\ CanWrite
    /\ component_map' = MapInsert(component_map, id, nextReg)
    /\ regId' = [regId EXCEPT ![nextReg] = id]
    /\ regCleanup' = [regCleanup EXCEPT ![nextReg] = cf]
    /\ nextReg' = nextReg + 1
    /\ tpc' = [tpc EXCEPT ![t] = IF Nested(t) THEN "reinsert_timeout" ELSE "insert_timeout"]
    /\ targ' = [targ EXCEPT ![t] = id]
    /\ treg' = [treg EXCEPT ![t] = nextReg]
    /\ overwritten' = IF component_map[id] # NoReg
                      THEN overwritten \cup {component_map[id]}
                      ELSE overwritten
    /\ UNCHANGED <<timeout_map, now, watcherVars, cleanups, expiresAt, tmWriter,
                   reapedEarly, timedOut, notRegVars>>

\* ComponentInner::insert, second statement:
\* timeout_map.lock().await.insert(id, Utc::now() + Duration::minutes(10)).
\* insert returns to its caller: the call is over, or the handler goes on.
InsertTimeout(t) ==
    /\ tpc[t] \in {"insert_timeout", "reinsert_timeout"}
    /\ timeout_map' = TimeInsert(timeout_map, targ[t], InsertExpiry(now))
    /\ expiresAt' = [expiresAt EXCEPT ![treg[t]] = InsertExpiry(now)]
    /\ tmWriter' = [tmWriter EXCEPT ![targ[t]] = treg[t]]
    /\ IF Nested(t)
       THEN /\ tpc' = [tpc EXCEPT ![t] = "handler"]
            /\ UNCHANGED <<targ, treg>>
       ELSE /\ tpc' = [tpc EXCEPT ![t] = "idle"]
            /\ targ' = [targ EXCEPT ![t] = ""]
            /\ treg' = [treg EXCEPT ![t] = NoReg]
    /\ UNCHANGED <<component_map, regId, regCleanup, nextReg, ops, now, watcherVars,
                   cleanups, overwritten, reapedEarly, timedOut, notRegVars>>

\* let (f, _) = lock.get(id)?; finds an entry whatever the id.
FoundAlways(id) == TRUE

\* let (f, _) = lock.get(id)?; finds an entry.
Found(id) == component_map[id] # NoReg

\* ComponentInner::run on an id that has no entry: lock.get(id)? returns None.
RunMissing(t, id) ==
    /\ Free(t)
    /\ CanRead
    /\ ~Found(id)
    /\ UNCHANGED <<component_map, timeout_map, regId, regCleanup, nextReg, ops, now,
                   taskVars, watcherVars, histVars, notRegVars>>

\* ComponentInner::run on a registered id: takes the read guard, starts f.run(params).
RunStart(t, id) ==
    /\ Free(t)
    /\ CanRead
    /\ Found(id)
    /\ tpc' = [tpc EXCEPT ![t] = "handler"]
    /\ targ' = [targ EXCEPT ![t] = id]
    /\ treg' = [treg EXCEPT ![t] = component_map[id]]
    /\ UNCHANGED <<component_map, timeout_map, regId, regCleanup, nextReg, ops, now,
                   watcherVars, histVars, notRegVars>>

\* A run that takes the entry and its expiry away when the handler is done.
RunEndRemoves(t) ==
    /\ tpc[t] = "handler"
    /\ component_map' = MapRemove(component_map, targ[t])
    /\ timeout_map' = TimeRemove(timeout_map, targ[t])
    /\ tpc' = [tpc EXCEPT ![t] = "idle"]
    /\ targ' = [targ EXCEPT ![t] = ""]
    /\ treg' = [treg EXCEPT ![t] = NoReg]
    /\ UNCHANGED <<regId, regCleanup, nextReg, ops, now, watcherVars, histVars, notRegVars>>

\* The handler's future resolves (Ok or Err): run returns Some(result), dropping the guard.
RunEnd(t) ==
    /\ tpc[t] = "handler"
    /\ tpc' = [tpc EXCEPT ![t] = "idle"]
    /\ targ' = [targ EXCEPT ![t] = ""]
    /\ treg' = [treg EXCEPT ![t] = NoReg]
    /\ UNCHANGED <<component_map, timeout_map, regId, regCleanup, nextReg, ops, now,
                   watcherVars, histVars, notRegVars>>

\* ComponentMap::timeout: timeout_map.lock().await.insert(id, Utc::now()).
Timeout(t, id) ==
    /\ Free(t)
    /\ ops < MaxOps
    /\ ops' = ops + 1
    /\ timeout_map' = TimeInsert(timeout_map, id, now)
    /\ tmWriter' = [tmWriter EXCEPT ![id] = ByTimeout]
    /\ timedOut' = IF /\ component_map[id] # NoReg
                      /\ expiresAt[component_map[id]] # NoTime
                      /\ \A u \in Tasks : ~(tpc[u] = "insert_timeout" /\ targ[u] = id)
                   THEN timedOut \cup {component_map[id]}
                   ELSE timedOut
    /\ UNCHANGED <<component_map, regId, regCleanup, nextReg, now, taskVars,
                   watcherVars, cleanups, overwritten, expiresAt, reapedEarly,
                   notRegVars>>

\* Time passes.
Tick ==
    /\ now + ClockStep <= MaxTime
    /\ now' = now + ClockStep
    /\ UNCHANGED <<component_map, timeout_map, regId, regCleanup, nextReg, ops,
                   taskVars, watcherVars, histVars, notRegVars>>

(***************************************************************************)
(* ComponentMap::timeout_watcher                                           *)
(***************************************************************************)

\* The timeout_map entry of the registration's id is the registration's own
\* expires_at (written by its insert, or by a timeout call) and the clock has
\* reached it.
OwnExpiryReached(r) ==
    /\ tmWriter[regId[r]] \in {r, ByTimeout}
    /\ Expired(timeout_map[regId[r]], now)

\* loop { let now = Utc::now();
\*        let kill_list = { timeout_map.lock().await ... filter(time <= now) ... collect() };
\* Nothing another task does between the two statements is told apart from its
\* doing it before the first or after the second, so they are one step.
WatcherScan ==
    /\ wpc = "scan"
    /\ wnow' = now
    /\ \E order \in Orders({id \in Ids : Expired(timeout_map[id], now)}) :
          kill_list' = order
    /\ wpc' = "kill"
    /\ UNCHANGED <<component_map, timeout_map, regId, regCleanup, nextReg, ops, now,
                   taskVars, wreg, histVars, notRegVars>>

\* for id in kill_list: component_map.write().await.remove(&id), and when the
\* removed pair has Some(cleanup), cleanup.run(...) is started under the guard.
WatcherRemove ==
    /\ wpc = "kill"
    /\ kill_list # <<>>
    /\ CanWrite
    /\ LET id == Head(kill_list)
           r == component_map[id]
       IN /\ component_map' = MapRemove(component_map, id)
          /\ reapedEarly' = IF r # NoReg /\ ~OwnExpiryReached(r)
                            THEN reapedEarly \cup {r}
                            ELSE reapedEarly
          /\ IF r # NoReg /\ regCleanup[r]
             THEN /\ wpc' = "cleanup"
                  /\ wreg' = r
                  /\ cleanups' = [cleanups EXCEPT ![r] = @ + 1]
             ELSE /\ wpc' = "unmap"
                  /\ UNCHANGED <<wreg, cleanups>>
    /\ UNCHANGED <<timeout_map, regId, regCleanup, nextReg, ops, now, taskVars, wnow,
                   kill_list, overwritten, expiresAt, tmWriter, timedOut, notRegVars>>

\* cleanup.run(...).await resolves to Ok: the `if let` ends and drops the write guard.
CleanupOk ==
    /\ wpc = "cleanup"
    /\ wpc' = "unmap"
    /\ wreg' = NoReg
    /\ UNCHANGED <<component_map, timeout_map, regId, regCleanup, nextReg, ops, now,
                   taskVars, wnow, kill_list, histVars, notRegVars>>

\* What `?` does with a cleanup's Err: timeout_watcher returns it to the task
\* spawned in EventHandler::ready, which logs it and ends.
OnCleanupErr == "returned"

\* cleanup.run(...).await resolves to Err.
CleanupErr ==
    /\ wpc = "cleanup"
    /\ wpc' = OnCleanupErr
    /\ wreg' = NoReg
    /\ UNCHANGED <<component_map, timeout_map, regId, regCleanup, nextReg, ops, now,
                   taskVars, wnow, kill_list, histVars, notRegVars>>

\* let _ = timeout_map.lock().await.remove(&id); and on to the next id.
WatcherUnmap ==
    /\ wpc = "unmap"
    /\ timeout_map' = TimeRemove(timeout_map, Head(kill_list))
    /\ tmWriter' = [tmWriter EXCEPT ![Head(kill_list)] = NoReg]
    /\ kill_list' = Tail(kill_list)
    /\ wpc' = "kill"
    /\ UNCHANGED <<component_map, regId, regCleanup, nextReg, ops, now, taskVars,
                   wnow, wreg, cleanups, overwritten, expiresAt, reapedEarly,
                   timedOut, notRegVars>>

\* The kill-list is exhausted: tokio::time::sleep(5 s) begins.
WatcherPassEnd ==
    /\ wpc = "kill"
    /\ kill_list = <<>>
    /\ wpc' = "sleep"
    /\ UNCHANGED <<component_map, timeout_map, regId, regCleanup, nextReg, ops, now,
                   taskVars, wnow, kill_list, wreg, histVars, notRegVars>>

\* The sleep of 5 seconds (less than one step of the clock) is over; the loop
\* body's `now` is gone.
WatcherWake ==
    /\ wpc = "sleep"
    /\ wpc' = "scan"
    /\ wnow' = NoTime
    /\ UNCHANGED <<component_map, timeout_map, regId, regCleanup, nextReg, ops, now,
                   taskVars, kill_list, wreg, histVars, notRegVars>>

(***************************************************************************)
(* Registry specification                                                  *)
(***************************************************************************)

RegNext ==
    \/ \E t \in Tasks, id \in Ids, cf \in BOOLEAN : InsertMap(t, id, cf)
    \/ \E t \in Tasks : InsertTimeout(t)
    \/ \E t \in Tasks, id \in Ids : RunMissing(t, id)
    \/ \E t \in Tasks, id \in Ids : RunStart(t, id)
    \/ \E t \in Tasks : RunEnd(t)
    \/ \E t \in Tasks, id \in Ids : Timeout(t, id)
    \/ Tick
    \/ WatcherScan
    \/ WatcherRemove
    \/ CleanupOk
    \/ CleanupErr
    \/ WatcherUnmap
    \/ WatcherPassEnd
    \/ WatcherWake

SpecReg == Init /\ [][RegNext]_vars

(***************************************************************************)
(* IPC messages                                                            *)
(***************************************************************************)

\* enum ActionMessage
Actions == {"EndTransmission", "NoOp", "GetCommandLogs"}

\* ActionMessageReceiver::perform of the bot (tara/src/ipc.rs): NoOp gives
\* ActionCompleted; GetCommandLogs gives CommandLogs, or ActionFailed when the
\* log cannot be read; EndTransmission is unreachable!() and gives nothing.
Perform(action) ==
    CASE action = "NoOp" -> {"ActionCompleted"}
      [] action = "GetCommandLogs" -> {"CommandLogs", "ActionFailed"}
      [] OTHER -> {}

\* The slices of actions passed to send_actions: the empty one, the three
\* NoOp of the crate's test and its prefixes, and mixed ones.
Slices ==
    { <<>>,
      <<"NoOp">>,
      <<"NoOp", "NoOp">>,
      <<"NoOp", "NoOp", "NoOp">>,
      <<"NoOp", "GetCommandLogs">>,
      <<"EndTransmission", "NoOp">>,
      <<"GetCommandLogs", "EndTransmission">> }

\* The actions a call of each kind writes, in order.
CallActions(kind) ==
    CASE kind = "send_action" -> {<<a>> : a \in Actions}
      [] kind = "send_actions" -> Slices
      [] kind = "close" -> {<<"EndTransmission">>}

CallKinds == {"send_action", "send_actions", "close"}

\* An action frame; call and pos say which call wrote it and at which position
\* of its slice (they are not on the wire).
ActionFrame(p) ==
    [msg |-> batch[p][Len(responses[p]) + 1], call |-> ccall[p],
     pos |-> Len(responses[p]) + 1, req |-> ""]

\* The response frame to the request the server holds.
ResponseFrame(resp) ==
    [msg |-> resp, call |-> sreq.call, pos |-> sreq.pos, req |-> sreq.msg]

(***************************************************************************)
(* Client                                                                  *)
(***************************************************************************)

\* Client::new: LocalSocketStream::connect succeeds while the listener exists
\* (the connection then waits in its backlog) and fails with IpcErr otherwise.
Connect(c) ==
    /\ cli[c] = "new"
    /\ IF spc # "returned"
       THEN /\ cli' = [cli EXCEPT ![c] = "open"]
            /\ srv' = [srv EXCEPT ![c] = "backlog"]
       ELSE /\ cli' = [cli EXCEPT ![c] = "failed"]
            /\ UNCHANGED srv
    /\ UNCHANGED <<c2s, s2c, lock, spc, sconn, sreq, sresp, ended,
                   cpc, ckind, batch, responses, ccall, calls, notIpcVars>>

\* self.connection.lock().await is granted.
LockFreeAlways(c) == TRUE

LockFree(c) == lock[c] = NoCaller

\* How a call leaves: close(self) consumes the caller's handle.
Left(kind) == IF kind = "close" THEN "gone" ELSE "idle"

\* send_action / send_actions / close is called and starts to wait for
\* self.connection.lock().  Nothing reads the call's actions before the lock
\* is granted, so they are drawn there.
CallStart(p, kind) ==
    /\ cpc[p] = "idle"
    /\ cli[ClientOf(p)] = "open"
    /\ calls < MaxCalls
    /\ calls' = calls + 1
    /\ ccall' = [ccall EXCEPT ![p] = calls + 1]
    /\ ckind' = [ckind EXCEPT ![p] = kind]
    /\ cpc' = [cpc EXCEPT ![p] = "lock"]
    /\ UNCHANGED <<cli, srv, c2s, s2c, lock, spc, sconn, sreq, sresp, ended,
                   batch, responses, notIpcVars>>

\* let mut connection = self.connection.lock().await; the loop of
\* send_actions does not run for an empty slice.
CallLock(p, acts) ==
    /\ cpc[p] = "lock"
    /\ acts \in CallActions(ckind[p])
    /\ LockFree(ClientOf(p))
    /\ lock' = [lock EXCEPT ![ClientOf(p)] = p]
    /\ batch' = [batch EXCEPT ![p] = acts]
    /\ cpc' = [cpc EXCEPT ![p] = IF acts = <<>> THEN "done" ELSE "write"]
    /\ UNCHANGED <<cli, srv, c2s, s2c, spc, sconn, sreq, sresp, ended,
                   ckind, responses, ccall, calls, notIpcVars>>

\* connection.write_serde(action).await?: the frame is written, or the write
\* fails because the server has closed its end.
CallWrite(p) ==
    /\ cpc[p] = "write"
    /\ IF srv[ClientOf(p)] = "closed"
       THEN /\ cpc' = [cpc EXCEPT ![p] = "failed"]
            /\ UNCHANGED c2s
       ELSE /\ c2s' = [c2s EXCEPT ![ClientOf(p)] = Append(@, ActionFrame(p))]
            /\ cpc' = [cpc EXCEPT ![p] = "read"]
    /\ UNCHANGED <<cli, srv, s2c, lock, spc, sconn, sreq, sresp, ended,
                   ckind, batch, responses, ccall, calls, notIpcVars>>

\* responses.push(frame), at the front.
PushFront(rs, f) == <<f>> \o rs

\* responses.push(frame)
Push(rs, f) == Append(rs, f)

\* A guard taken per action: the lock is free again after each read.
HolderAfterReadNone(p) == NoCaller

\* `connection`, the MutexGuard, is declared outside the loop of send_actions:
\* after a read the caller still holds the lock.
HolderAfterRead(p) == p

\* connection.read_serde().await: a response frame is read and pushed; after
\* the last one the call is about to return Ok(responses).
CallRead(p) ==
    /\ cpc[p] = "read"
    /\ s2c[ClientOf(p)] # <<>>
    /\ lock' = [lock EXCEPT ![ClientOf(p)] = HolderAfterRead(p)]
    /\ responses' = [responses EXCEPT ![p] = Push(@, Head(s2c[ClientOf(p)]))]
    /\ s2c' = [s2c EXCEPT ![ClientOf(p)] = Tail(@)]
    /\ cpc' = [cpc EXCEPT ![p] = IF Len(responses[p]) + 1 = Len(batch[p])
                                 THEN "done" ELSE "write"]
    /\ UNCHANGED <<cli, srv, c2s, spc, sconn, sreq, sresp, ended,
                   ckind, batch, ccall, calls, notIpcVars>>

\* connection.read_serde().await?: nothing is left to read and the server has
\* closed its end; the call is about to return the IpcErr.
CallReadEof(p) ==
    /\ cpc[p] = "read"
    /\ s2c[ClientOf(p)] = <<>>
    /\ srv[ClientOf(p)] = "closed"
    /\ cpc' = [cpc EXCEPT ![p] = "failed"]
    /\ UNCHANGED <<cli, srv, c2s, s2c, lock, spc, sconn, sreq, sresp, ended,
                   ckind, batch, responses, ccall, calls, notIpcVars>>

\* The call returns Ok(responses) or Err: its MutexGuard and locals are dropped.
CallReturn(p) ==
    /\ cpc[p] \in {"done", "failed"}
    /\ cpc' = [cpc EXCEPT ![p] = Left(ckind[p])]
    /\ lock' = [lock EXCEPT ![ClientOf(p)] = NoCaller]
    /\ ckind' = [ckind EXCEPT ![p] = ""]
    /\ batch' = [batch EXCEPT ![p] = <<>>]
    /\ responses' = [responses EXCEPT ![p] = <<>>]
    /\ ccall' = [ccall EXCEPT ![p] = 0]
    /\ UNCHANGED <<cli, srv, c2s, s2c, spc, sconn, sreq, sresp, ended, calls,
                   notIpcVars>>

\* Every clone of the Client is dropped between calls, without close(): the
\* client's end of the stream closes.
ClientDrop(c) ==
    /\ cli[c] = "open"
    /\ \A p \in Callers : ClientOf(p) = c => cpc[p] \in {"idle", "gone"}
    /\ \E p \in Callers : ClientOf(p) = c /\ cpc[p] = "idle"
    /\ cli' = [cli EXCEPT ![c] = "dropped"]
    /\ UNCHANGED <<srv, c2s, s2c, lock, spc, sconn, sreq, sresp, ended,
                   cpc, ckind, batch, responses, ccall, calls, notIpcVars>>

(***************************************************************************)
(* start_server, after the bind                                            *)
(***************************************************************************)

\* accept() answers while a connection is still in service.
AcceptWhileServing(c) ==
    /\ spc \in {"accept", "read"}
    /\ srv[c] = "backlog"
    /\ srv' = [srv EXCEPT ![c] = "accepted"]
    /\ sconn' = c
    /\ spc' = "read"
    /\ UNCHANGED <<cli, c2s, s2c, lock, sreq, sresp, ended,
                   cpc, ckind, batch, responses, ccall, calls, notIpcVars>>

\* listener.accept().await gives the next waiting connection.
Accept(c) ==
    /\ spc = "accept"
    /\ srv[c] = "backlog"
    /\ srv' = [srv EXCEPT ![c] = "accepted"]
    /\ sconn' = c
    /\ spc' = "read"
    /\ UNCHANGED <<cli, c2s, s2c, lock, sreq, sresp, ended,
                   cpc, ckind, batch, responses, ccall, calls, notIpcVars>>

\* listener.accept().await gives Err: the Err arm is entered.
AcceptFailed ==
    /\ spc = "accept"
    /\ spc' = "accept_err"
    /\ UNCHANGED <<cli, srv, c2s, s2c, lock, sconn, sreq, sresp, ended,
                   cpc, ckind, batch, responses, ccall, calls, notIpcVars>>

OnAcceptErrorReturns == "returned"

\* Err(e) => { error!("Incoming connection failed: {e}"); continue; }
OnAcceptError == "accept"

\* The Err arm of the accept match has logged the error.
AcceptErrLogged ==
    /\ spc = "accept_err"
    /\ spc' = OnAcceptError
    /\ UNCHANGED <<cli, srv, c2s, s2c, lock, sconn, sreq, sresp, ended,
                   cpc, ckind, batch, responses, ccall, calls, notIpcVars>>

\* What `?` does with an IpcErr inside the connection loop: start_server
\* returns it.
OnConnError == "returned"

\* The server's end of a connection is dropped: what it has not read is lost.
Unread(c, closing) == IF c \in closing THEN <<>> ELSE c2s[c]

\* start_server returns the IpcErr, dropping `conn` and the listener with its
\* waiting connections.
ServerFails ==
    /\ spc' = OnConnError
    /\ sconn' = NoClient
    /\ sreq' = NoFrame
    /\ sresp' = ""
    /\ srv' = [c \in Clients |-> IF srv[c] \in {"backlog", "accepted"}
                                THEN "closed" ELSE srv[c]]
    /\ c2s' = [c \in Clients |-> Unread(c, {x \in Clients : srv[x] \in {"backlog", "accepted"}})]

\* Every received action is handed to perform.
OnActionAlwaysPerform(action) == "perform"

\* if action == ActionMessage::EndTransmission { ... break; } and otherwise
\* action_receiver.perform(action): where the connection loop goes with the
\* action it has read.
OnAction(action) == IF action = "EndTransmission" THEN "write_end" ELSE "perform"

\* let action: ActionMessage = conn.read_serde().await?;
ServerRead ==
    /\ spc = "read"
    /\ c2s[sconn] # <<>>
    /\ sreq' = Head(c2s[sconn])
    /\ c2s' = [c2s EXCEPT ![sconn] = Tail(@)]
    /\ spc' = OnAction(Head(c2s[sconn]).msg)
    /\ IF Head(c2s[sconn]).msg = "EndTransmission"
       THEN ended' = ended \cup {sconn}
       ELSE UNCHANGED ended
    /\ UNCHANGED <<cli, srv, s2c, lock, sconn, sresp,
                   cpc, ckind, batch, responses, ccall, calls, notIpcVars>>

\* conn.read_serde().await? when the client has closed its end: Err.
ServerReadEof ==
    /\ spc = "read"
    /\ c2s[sconn] = <<>>
    /\ cli[sconn] = "dropped"
    /\ ServerFails
    /\ UNCHANGED <<cli, s2c, lock, ended,
                   cpc, ckind, batch, responses, ccall, calls, notIpcVars>>

\* let response = action_receiver.perform(action).await;
ServerPerform ==
    /\ spc = "perform"
    /\ \E resp \in Perform(sreq.msg) : sresp' = resp
    /\ spc' = "write"
    /\ UNCHANGED <<cli, srv, c2s, s2c, lock, sconn, sreq, ended,
                   cpc, ckind, batch, responses, ccall, calls, notIpcVars>>

\* After a response the connection loop writes it again.
AfterResponseAgain == "write"

\* After conn.write_serde(response).await? the connection loop reads again.
AfterResponse == "read"

\* conn.write_serde(response).await?;
ServerWrite ==
    /\ spc = "write"
    /\ IF cli[sconn] = "dropped"
       THEN /\ ServerFails
            /\ UNCHANGED s2c
       ELSE /\ s2c' = [s2c EXCEPT ![sconn] = Append(@, ResponseFrame(sresp))]
            /\ spc' = AfterResponse
            /\ sreq' = NoFrame
            /\ sresp' = ""
            /\ UNCHANGED <<srv, sconn, c2s>>
    /\ UNCHANGED <<cli, lock, ended,
                   cpc, ckind, batch, responses, ccall, calls, notIpcVars>>

\* After TransmissonEnded the connection loop reads again.
AfterEndContinues == "read"

\* After conn.write_serde(ResponseMessage::TransmissonEnded).await?: break.
AfterEnd == "break"

\* if action == EndTransmission { conn.write_serde(TransmissonEnded).await?; break; }
ServerWriteEnd ==
    /\ spc = "write_end"
    /\ IF cli[sconn] = "dropped"
       THEN /\ ServerFails
            /\ UNCHANGED s2c
       ELSE /\ s2c' = [s2c EXCEPT ![sconn] = Append(@, ResponseFrame("TransmissonEnded"))]
            /\ spc' = AfterEnd
            /\ sreq' = NoFrame
            /\ UNCHANGED <<srv, sconn, c2s, sresp>>
    /\ UNCHANGED <<cli, lock, ended,
                   cpc, ckind, batch, responses, ccall, calls, notIpcVars>>

\* The inner loop is left: `conn` is dropped at the end of the outer loop's
\* body and the server accepts again.
ServerBreak ==
    /\ spc = "break"
    /\ srv' = [srv EXCEPT ![sconn] = "closed"]
    /\ c2s' = [c \in Clients |-> Unread(c, {sconn})]
    /\ sconn' = NoClient
    /\ spc' = "accept"
    /\ UNCHANGED <<cli, s2c, lock, sreq, sresp, ended,
                   cpc, ckind, batch, responses, ccall, calls, notIpcVars>>

(***************************************************************************)
(* IPC specification                                                       *)
(***************************************************************************)

IpcNext ==
    \/ \E c \in Clients : Connect(c)
    \/ \E p \in Callers, kind \in CallKinds : CallStart(p, kind)
    \/ \E p \in Callers : \E acts \in Slices \cup {<<a>> : a \in Actions} : CallLock(p, acts)
    \/ \E p \in Callers : CallWrite(p)
    \/ \E p \in Callers : CallRead(p)
    \/ \E p \in Callers : CallReadEof(p)
    \/ \E p \in Callers : CallReturn(p)
    \/ \E c \in Clients : ClientDrop(c)
    \/ \E c \in Clients : Accept(c)
    \/ AcceptFailed
    \/ AcceptErrLogged
    \/ ServerRead
    \/ ServerReadEof
    \/ ServerPerform
    \/ ServerWrite
    \/ ServerWriteEnd
    \/ ServerBreak

SpecIpc == Init /\ [][IpcNext]_vars

(***************************************************************************)
(* Registry properties                                                     *)
(***************************************************************************)

\* The registrations made so far.
Made == {r \in Regs : regId[r] # ""}

\* C1: no registration ever has its cleanup invoked twice, whether it leaves
\* the map by natural expiry or after an explicit timeout(id).
C1_CleanupAtMostOnce == \A r \in Made : cleanups[r] <= 1

\* A registration's cleanup has run, the pass that reaped it is over and both
\* maps have let go of its id.
C1_Witness ==
    \E r \in Made :
        /\ cleanups[r] = 1
        /\ wpc = "sleep"
        /\ component_map[regId[r]] = NoReg
        /\ timeout_map[regId[r]] = NoTime

\* C2: a registration inserted with a cleanup and never overwritten has its
\* cleanup invoked exactly once, by the first sweep pass that starts at or
\* after its expires_at: never twice, never before its expires_at, and once a
\* pass that started at or after its expires_at is over (or the watcher has
\* returned from it) the count is 1.
C2_ExactlyOnceOnExpiry ==
    \A r \in Made :
        (regCleanup[r] /\ r \notin overwritten) =>
            /\ cleanups[r] <= 1
            /\ cleanups[r] = 1 => r \notin reapedEarly
            /\ (wpc \in {"sleep", "returned"} /\ Expired(expiresAt[r], wnow))
                   => cleanups[r] = 1

\* C3: a cleanup that returns an error does not stop timeout_watcher: it goes
\* on with the kill-list and with later passes.
C3_WatcherSurvivesCleanupError == wpc # "returned"

\* C4: once insert(id, h2, c2) has overwritten insert(id, h1, c1), no run
\* invokes h1, the map no longer holds (h1, c1), and c1 is never invoked.
C4_OverwriteSemantics ==
    \A r \in overwritten :
        /\ cleanups[r] = 0
        /\ component_map[regId[r]] # r
        /\ \A t \in Tasks : tpc[t] = "handler" => treg[t] # r

\* A registration with a cleanup was overwritten, and the cleanup of the
\* registration that replaced it has been invoked by the sweep.
C4_Witness ==
    \E r \in overwritten : \E r2 \in Made \ overwritten :
        /\ regCleanup[r]
        /\ regId[r2] = regId[r]
        /\ r2 > r
        /\ cleanups[r2] = 1

\* C5: the sweep removes a registration (and fires its cleanup) only when the
\* registration's own expires_at has been written and is <= now.
C5_SweepOnlyDestroysExpired == reapedEarly = {}

(***************************************************************************)
(* IPC properties                                                          *)
(***************************************************************************)

\* C6: an IpcErr inside one connection's loop (the client went away without
\* EndTransmission) ends only that connection: start_server does not return.
C6_ServerSurvivesConnectionError == spc # "returned"

\* The callers between the lock of the connection and the return of the call.
InCall == {p \in Callers : cpc[p] \in {"write", "read", "done", "failed"}}

\* The frames of a connection that are written and not yet consumed by the
\* other side: action frames in flight, the request the server is answering,
\* response frames in flight.
Outstanding(c) ==
    Len(c2s[c]) + Len(s2c[c])
        + (IF sconn = c /\ spc \in {"perform", "write", "write_end"} THEN 1 ELSE 0)

\* C7: strict alternation on one connection.  At most one frame is in flight
\* (no pipelining); a caller has a frame in flight exactly while it waits at
\* its read and has none while it is at its next write; every response frame
\* answers the action frame the reading caller wrote last (no unsolicited
\* response, one response per action frame); the server holds an action frame
\* only while it is answering it.
C7_StrictAlternation ==
    \A c \in Clients :
        /\ Outstanding(c) <= 1
        /\ Outstanding(c) = 1 => \E p \in InCall : ClientOf(p) = c /\ cpc[p] = "read"
        /\ \A p \in InCall : (ClientOf(p) = c /\ cpc[p] \in {"write", "done"}) => Outstanding(c) = 0
        /\ \A i \in 1..Len(s2c[c]) : \E p \in InCall :
              /\ ClientOf(p) = c
              /\ cpc[p] = "read"
              /\ s2c[c][i].call = ccall[p]
              /\ s2c[c][i].pos = Len(responses[p]) + 1
              /\ s2c[c][i].req = batch[p][Len(responses[p]) + 1]
        /\ (sconn = c /\ spc \in {"perform", "write", "write_end"}) => sreq # NoFrame

\* A send_actions call has read the response to its first action, has written
\* its second action, and that frame is on its way to the server.
C7_Witness ==
    \E p \in Callers :
        /\ cpc[p] = "read"
        /\ ckind[p] = "send_actions"
        /\ Len(responses[p]) = 1
        /\ Len(c2s[ClientOf(p)]) = 1
        /\ c2s[ClientOf(p)][1].pos = 2
        /\ sconn = ClientOf(p)

\* The response frames that exist: in flight or read by a call in progress.
ResponseFrames ==
    UNION {{s2c[c][i] : i \in 1..Len(s2c[c])} : c \in Clients}
        \cup UNION {{responses[p][i] : i \in 1..Len(responses[p])} : p \in Callers}

\* C8: EndTransmission is terminal.  The response to an EndTransmission frame
\* is TransmissonEnded and nothing else is answered with it; once the server
\* has read EndTransmission on a connection it only writes that response and
\* leaves the loop, and the connection is then closed on its side; a call
\* reads no response to an action it wrote after an EndTransmission.
C8_EndTransmissionTerminal ==
    /\ \A f \in ResponseFrames : (f.req = "EndTransmission") <=> (f.msg = "TransmissonEnded")
    /\ \A c \in ended :
          \/ sconn = c /\ spc \in {"write_end", "break"}
          \/ srv[c] = "closed"
    /\ \A p \in Callers : \A i \in 1..Len(responses[p]) :
          responses[p][i].call = ccall[p] =>
              \A k \in 1..(responses[p][i].pos - 1) : batch[p][k] # "EndTransmission"

\* A call has read TransmissonEnded for its first action and has written its
\* second one; the server has left that connection, which has nothing left
\* to read: the second frame was neither read nor answered.
C8_Witness ==
    \E p \in Callers :
        /\ cpc[p] = "read"
        /\ Len(responses[p]) = 1
        /\ responses[p][1].msg = "TransmissonEnded"
        /\ ClientOf(p) \in ended
        /\ srv[ClientOf(p)] = "closed"
        /\ s2c[ClientOf(p)] = <<>>
        /\ spc = "accept"

\* The responses the server gives to an action.
Answers(action) == IF action = "EndTransmission" THEN {"TransmissonEnded"} ELSE Perform(action)

\* C9: when send_actions is about to return Ok(responses), the list is as
\* long as the slice and its i-th element is the response the server gave to
\* the i-th action of this call.
C9_PositionalCorrespondence ==
    \A p \in Callers :
        (cpc[p] = "done" /\ ckind[p] = "send_actions") =>
            /\ Len(responses[p]) = Len(batch[p])
            /\ \A i \in 1..Len(batch[p]) :
                  /\ responses[p][i].call = ccall[p]
                  /\ responses[p][i].pos = i
                  /\ responses[p][i].req = batch[p][i]
                  /\ responses[p][i].msg \in Answers(batch[p][i])

\* send_actions(&[NoOp, NoOp, NoOp]) is about to return three ActionCompleted.
C9_Witness ==
    \E p \in Callers :
        /\ cpc[p] = "done"
        /\ ckind[p] = "send_actions"
        /\ batch[p] = <<"NoOp", "NoOp", "NoOp">>
        /\ \A i \in 1..3 : responses[p][i].msg = "ActionCompleted"

\* C10: callers that share a Client interleave at whole-call granularity.  A
\* caller between its lock and its return holds the connection's lock, so it
\* is the only one there; every frame on the connection, in either direction
\* or in the server's hands, belongs to that caller's call; what the call has
\* read are the responses to its own actions.
C10_WholeRequestInterleaving ==
    \A c \in Clients :
        /\ \A p \in InCall : ClientOf(p) = c => lock[c] = p
        /\ \A p \in Callers : (ClientOf(p) = c /\ p \notin InCall) => lock[c] # p
        /\ \A i \in 1..Len(c2s[c]) : lock[c] # NoCaller /\ c2s[c][i].call = ccall[lock[c]]
        /\ \A i \in 1..Len(s2c[c]) : lock[c] # NoCaller /\ s2c[c][i].call = ccall[lock[c]]
        /\ (sconn = c /\ sreq # NoFrame) => (lock[c] # NoCaller /\ sreq.call = ccall[lock[c]])
        /\ \A p \in Callers : ClientOf(p) = c =>
              \A i \in 1..Len(responses[p]) :
                  /\ responses[p][i].call = ccall[p]
                  /\ responses[p][i].req = batch[p][i]

\* Two callers share a Client: one is between the write and the read of its
\* send_action while the other waits for the connection's lock.
C10_Witness ==
    \E p, q \in Callers :
        /\ p # q
        /\ ClientOf(p) = ClientOf(q)
        /\ cpc[p] = "read"
        /\ ckind[p] = "send_action"
        /\ cpc[q] = "lock"
        /\ ckind[q] = "send_action"
        /\ spc = "write"
        /\ sconn = ClientOf(p)

(***************************************************************************)
(* Registry properties: concurrency of insert                              *)
(***************************************************************************)

\* The tasks between the two statements of an insert on id.
Inserting(id) == {t \in Tasks : tpc[t] = "insert_timeout" /\ targ[t] = id}

\* C11: insert is atomic towards concurrent run and sweep: no run executes a
\* handler whose registration has no expires_at yet, and the sweep runs no
\* cleanup of a registration that has no expires_at yet.
C11_InsertAtomic ==
    /\ \A t \in Tasks : tpc[t] = "handler" => expiresAt[treg[t]] # NoTime
    /\ wpc = "cleanup" => expiresAt[wreg] # NoTime

\* C12: last writer wins as a whole.  When no insert on an id is in
\* progress and the id's expiry was written by an insert, that insert is the
\* one whose handler and cleanup the map holds, and the expiry is the
\* expires_at that insert computed.
C12_LastWriterWins ==
    \A id \in Ids :
        (/\ Inserting(id) = {}
         /\ component_map[id] # NoReg
         /\ tmWriter[id] \in Regs)
            => /\ tmWriter[id] = component_map[id]
               /\ timeout_map[id] = expiresAt[component_map[id]]

(***************************************************************************)
(* Registry properties: the sweep and explicit timeout                     *)
(***************************************************************************)

\* C13: no lock of the registry is held while a cleanup executes: during a
\* cleanup a run can take the read guard of component_map, and an insert can
\* take its write guard as soon as no handler is running.
C13_NoLockDuringCleanup ==
    wpc = "cleanup" => (CanRead /\ (Readers = {} => CanWrite))

\* C14: an explicit timeout preempts natural expiry.  A registration on which
\* timeout(id) was called after its insert returned stays due for as long as
\* the map holds it: the expiry entry of its id is <= now, so the scan of the
\* next sweep pass takes it; and once the sweep has removed it, its cleanup
\* has been fired.
C14_TimeoutPreempts ==
    \A r \in timedOut :
        /\ component_map[regId[r]] = r => Expired(timeout_map[regId[r]], now)
        /\ (component_map[regId[r]] # r /\ r \notin overwritten /\ regCleanup[r])
               => cleanups[r] = 1

(***************************************************************************)
(* Registry properties: run                                                *)
(***************************************************************************)

\* C15: run on an id that has no registration returns None: it is the step
\* that starts no handler, and it leaves both maps, every task and the
\* watcher (so every cleanup) as they were.
C15_RunMissingIsNoOp ==
    [][\A t \in Tasks, id \in Ids :
          (component_map[id] = NoReg /\ (RunMissing(t, id) \/ RunStart(t, id)))
              => /\ RunMissing(t, id)
                 /\ UNCHANGED <<component_map, timeout_map, taskVars, watcherVars, cleanups>>]_vars

\* run can be called on an id that has no registration while the other id has
\* one whose handler is running.
C15_Witness ==
    \E id \in Ids, t \in Tasks :
        /\ component_map[id] = NoReg
        /\ Free(t)
        /\ CanRead
        /\ \E u \in Tasks : tpc[u] = "handler" /\ targ[u] # id

\* C16: run on a registered id starts the handler the map holds for it and,
\* from the lookup to the return of Some(result), changes neither the entry
\* nor any expires_at.
C16_RunLeavesRegistry ==
    [][\A t \in Tasks :
          /\ \A id \in Ids :
                (component_map[id] # NoReg /\ (RunStart(t, id) \/ RunMissing(t, id)))
                    => /\ tpc'[t] = "handler"
                       /\ treg'[t] = component_map[id]
                       /\ UNCHANGED <<component_map, timeout_map>>
          /\ RunEnd(t) => UNCHANGED <<component_map, timeout_map>>]_vars

\* A handler runs at its registration's expires_at: the entry and the expiry
\* are still those the insert wrote ten minutes earlier.
C16_Witness ==
    \E t \in Tasks :
        /\ tpc[t] = "handler"
        /\ component_map[targ[t]] = treg[t]
        /\ expiresAt[treg[t]] = TTL
        /\ timeout_map[targ[t]] = TTL
        /\ now = TTL

C18_TimeoutNeverLater ==
    [][\A t \in Tasks, id \in Ids :
          (Timeout(t, id) /\ component_map[id] # NoReg /\ timeout_map[id] # NoTime)
              => /\ timeout_map'[id] <= timeout_map[id]
                 /\ UNCHANGED <<component_map, taskVars, watcherVars, cleanups>>
                 /\ \A other \in Ids \ {id} : timeout_map'[other] = timeout_map[other]]_vars

\* C19: timeout(id) on an id that has no registration creates no registry
\* state: the id has no handler entry and no expiry entry afterwards.
C19_TimeoutOnAbsentId ==
    [][\A t \in Tasks, id \in Ids :
          (Timeout(t, id) /\ component_map[id] = NoReg /\ timeout_map[id] = NoTime)
              => (component_map'[id] = NoReg /\ timeout_map'[id] = NoTime)]_vars

(***************************************************************************)
(* IPC properties: batches                                                 *)
(***************************************************************************)

\* The callers inside a send_actions batch: from its first write to its
\* last read.
InBatch == {p \in Callers : ckind[p] = "send_actions" /\ cpc[p] \in {"write", "read"}}

\* C20: send_actions holds the connection lock for its whole batch.  From the
\* first write to the last read the caller is the lock holder at every step,
\* no other caller sharing the Client is past the lock, and every frame on
\* the connection or in the server's hands is a frame of this batch, at the
\* position the batch has reached.
C20_BatchHoldsLock ==
    \A p \in InBatch :
        LET c == ClientOf(p)
            k == Len(responses[p]) + 1
        IN /\ lock[c] = p
           /\ \A q \in Callers \ {p} : ClientOf(q) = c => cpc[q] \in {"idle", "lock", "gone"}
           /\ \A i \in 1..Len(c2s[c]) : c2s[c][i].call = ccall[p] /\ c2s[c][i].pos = k
           /\ \A i \in 1..Len(s2c[c]) : s2c[c][i].call = ccall[p] /\ s2c[c][i].pos = k
           /\ (sconn = c /\ sreq # NoFrame) => (sreq.call = ccall[p] /\ sreq.pos = k)

\* A batch is between its first response and its second write while another
\* caller sharing the Client waits for the lock.
C20_Witness ==
    \E p \in InBatch : \E q \in Callers \ {p} :
        /\ ClientOf(q) = ClientOf(p)
        /\ cpc[q] = "lock"
        /\ cpc[p] = "write"
        /\ Len(responses[p]) = 1
        /\ Len(batch[p]) >= 2

(***************************************************************************)
(* start_server's bind protocol: tara-util/src/ipc/mod.rs:74-95            *)
(***************************************************************************)

\* Processes started over a run of the model.
MaxStarts == 3

\* The processes that exist.
Running == {i \in Instances : bpc[i] # "off"}

\* The instances holding a listener.
Listening == {i \in Instances : bpc[i] = "listening"}

\* The count sees only the calling process.
CountAlwaysOne == Cardinality({i \in Running : FALSE}) + 1

\* current_process_instance_count(): the processes whose name is the name of
\* the current executable, the caller included.
CurrentProcessInstanceCount == Cardinality(Running)

\* bind(2) on a path: fails with AddrInUse while any file is at the path.
BindSucceeds == socket_file = NoFile

\* An earlier run of the program ended without removing its socket file.
LeaveStale ==
    /\ starts = 0
    /\ socket_file = NoFile
    /\ socket_file' = Stale
    /\ UNCHANGED <<bpc, binds, removed, counted, berr, starts, notBindVars>>

\* A process of the executable starts; its IPC task is about to call bind.
ProcStart(i) ==
    /\ bpc[i] = "off"
    /\ starts < MaxStarts
    /\ starts' = starts + 1
    /\ bpc' = [bpc EXCEPT ![i] = "bind"]
    /\ binds' = [binds EXCEPT ![i] = 0]
    /\ removed' = [removed EXCEPT ![i] = 0]
    /\ counted' = [counted EXCEPT ![i] = 0]
    /\ berr' = [berr EXCEPT ![i] = ""]
    /\ UNCHANGED <<socket_file, notBindVars>>

\* The process ends (exit, kill, crash).  Its listener goes with it; the file
\* at socket_name stays.
ProcExit(i) ==
    /\ bpc[i] # "off"
    /\ bpc' = [bpc EXCEPT ![i] = "off"]
    /\ UNCHANGED <<socket_file, binds, removed, counted, berr, starts, notBindVars>>

\* mod.rs:82-83: the first bind.  Ok(l) => Ok(l); AddrInUse goes to the count.
Bind(i) ==
    /\ bpc[i] = "bind"
    /\ binds' = [binds EXCEPT ![i] = @ + 1]
    /\ IF BindSucceeds
       THEN /\ socket_file' = i
            /\ bpc' = [bpc EXCEPT ![i] = "listening"]
       ELSE /\ bpc' = [bpc EXCEPT ![i] = "count"]
            /\ UNCHANGED socket_file
    /\ UNCHANGED <<removed, counted, berr, starts, notBindVars>>

\* mod.rs:94: Err(e) => Err(e) for any other error of the first bind.
BindOtherErr(i) ==
    /\ bpc[i] = "bind"
    /\ binds' = [binds EXCEPT ![i] = @ + 1]
    /\ bpc' = [bpc EXCEPT ![i] = "failed"]
    /\ berr' = [berr EXCEPT ![i] = "Io"]
    /\ UNCHANGED <<socket_file, removed, counted, starts, notBindVars>>

OnLiveConflictRemoves == "remove"

\* mod.rs:85-87: more than one instance: Err(e), which `}?` at line 95 returns.
OnLiveConflict == "failed"

OnStaleSocketRebinds == "rebind"

\* mod.rs:88-90: at most one instance: go on to remove the file.
OnStaleSocket == "remove"

\* mod.rs:85: current_process_instance_count()? > 1
Count(i) ==
    /\ bpc[i] = "count"
    /\ counted' = [counted EXCEPT ![i] = CurrentProcessInstanceCount]
    /\ IF CurrentProcessInstanceCount > 1
       THEN /\ bpc' = [bpc EXCEPT ![i] = OnLiveConflict]
            /\ berr' = [berr EXCEPT ![i] = "AddrInUse"]
       ELSE /\ bpc' = [bpc EXCEPT ![i] = OnStaleSocket]
            /\ UNCHANGED berr
    /\ UNCHANGED <<socket_file, binds, removed, starts, notBindVars>>

\* mod.rs:85: the `?` on current_process_instance_count (lib.rs:15-22 fails
\* when the path of the current executable cannot be read).
CountErr(i) ==
    /\ bpc[i] = "count"
    /\ bpc' = [bpc EXCEPT ![i] = "failed"]
    /\ berr' = [berr EXCEPT ![i] = "Io"]
    /\ UNCHANGED <<socket_file, binds, removed, counted, starts, notBindVars>>

\* mod.rs:90: fs::remove_file(&socket_name).await?
RemoveFile(i) ==
    /\ bpc[i] = "remove"
    /\ IF socket_file # NoFile
       THEN /\ socket_file' = NoFile
            /\ removed' = [removed EXCEPT ![i] = @ + 1]
            /\ bpc' = [bpc EXCEPT ![i] = "rebind"]
            /\ UNCHANGED berr
       ELSE /\ bpc' = [bpc EXCEPT ![i] = "failed"]
            /\ berr' = [berr EXCEPT ![i] = "Io"]
            /\ UNCHANGED <<socket_file, removed>>
    /\ UNCHANGED <<binds, counted, starts, notBindVars>>

\* mod.rs:90: remove_file fails for another reason (permissions).
RemoveFileErr(i) ==
    /\ bpc[i] = "remove"
    /\ socket_file # NoFile
    /\ bpc' = [bpc EXCEPT ![i] = "failed"]
    /\ berr' = [berr EXCEPT ![i] = "Io"]
    /\ UNCHANGED <<socket_file, binds, removed, counted, starts, notBindVars>>

\* mod.rs:91 and 95: the second bind; its result is the match's value, so an
\* error of any kind is returned by `}?`.
Rebind(i) ==
    /\ bpc[i] = "rebind"
    /\ binds' = [binds EXCEPT ![i] = @ + 1]
    /\ IF BindSucceeds
       THEN /\ socket_file' = i
            /\ bpc' = [bpc EXCEPT ![i] = "listening"]
            /\ UNCHANGED berr
       ELSE /\ bpc' = [bpc EXCEPT ![i] = "failed"]
            /\ berr' = [berr EXCEPT ![i] = "AddrInUse"]
            /\ UNCHANGED socket_file
    /\ UNCHANGED <<removed, counted, starts, notBindVars>>

\* mod.rs:108, 113, 118: a `?` in the connection loop returns from
\* start_server and drops the listener; the process goes on without it.
ListenerDropped(i) ==
    /\ bpc[i] = "listening"
    /\ bpc' = [bpc EXCEPT ![i] = "failed"]
    /\ berr' = [berr EXCEPT ![i] = "Io"]
    /\ UNCHANGED <<socket_file, binds, removed, counted, starts, notBindVars>>

BindNext ==
    \/ LeaveStale
    \/ \E i \in Instances : ProcStart(i)
    \/ \E i \in Instances : ProcExit(i)
    \/ \E i \in Instances : Bind(i)
    \/ \E i \in Instances : BindOtherErr(i)
    \/ \E i \in Instances : Count(i)
    \/ \E i \in Instances : CountErr(i)
    \/ \E i \in Instances : RemoveFile(i)
    \/ \E i \in Instances : RemoveFileErr(i)
    \/ \E i \in Instances : Rebind(i)
    \/ \E i \in Instances : ListenerDropped(i)

SpecBind == Init /\ [][BindNext]_vars

\* The run so far is one of two instances: no process has been started a
\* second time.
TwoInstances == starts <= Cardinality(Instances)

\* C21: while only two instances have run start_server's bind protocol, at
\* most one of them holds a listener at any time, whatever the interleaving
\* and whether or not a stale socket file was there.
C21_AtMostOneListener == TwoInstances => Cardinality(Listening) <= 1

\* An instance listens after recovering from a leftover file while the other
\* instance, which ran into the first one's file, has given up.
C21_Witness ==
    \E i, j \in Instances :
        /\ i # j
        /\ bpc[i] = "listening" /\ removed[i] = 1
        /\ bpc[j] = "failed" /\ counted[j] = 2
        /\ TwoInstances

\* C22: an instance whose bind failed with AddrInUse and which counted more
\* than one running instance has returned that error from start_server after
\* its single bind, and has removed no file.
C22_LiveConflictFatal ==
    \A i \in Instances :
        counted[i] > 1 =>
            /\ bpc[i] \in {"failed", "off"}
            /\ berr[i] = "AddrInUse"
            /\ binds[i] = 1
            /\ removed[i] = 0

\* The second instance has given up on the conflict and the first one still
\* listens on the file its bind created.
C22_Witness ==
    \E i, j \in Instances :
        /\ bpc[j] = "failed" /\ counted[j] = 2 /\ berr[j] = "AddrInUse"
        /\ bpc[i] = "listening" /\ socket_file = i

\* C23: an instance whose bind failed with AddrInUse and which counted at most
\* one running instance removes the socket file and binds exactly once more;
\* it listens only after that removal and that second bind, and when the second
\* bind fails start_server has returned.
C23_StaleSocketRecovery ==
    \A i \in Instances :
        counted[i] = 1 =>
            /\ bpc[i] \in {"remove", "rebind", "listening", "failed", "off"}
            /\ binds[i] <= 2
            /\ binds[i] = 2 => removed[i] = 1
            /\ bpc[i] = "rebind" => (removed[i] = 1 /\ binds[i] = 1)
            /\ bpc[i] = "listening" => (removed[i] = 1 /\ binds[i] = 2)
            /\ (binds[i] = 2 /\ bpc[i] \notin {"listening", "off"}) =>
                   (bpc[i] = "failed" /\ berr[i] # "")

\* An instance listens after removing a stale file and binding a second time.
C23_Witness ==
    \E i \in Instances :
        /\ counted[i] = 1 /\ removed[i] = 1 /\ binds[i] = 2
        /\ bpc[i] = "listening" /\ socket_file = i

(***************************************************************************)
(* IPC properties: the accept loop                                         *)
(***************************************************************************)

\* s is an initial part of t.
IsPrefix(s, t) == Len(s) <= Len(t) /\ SubSeq(t, 1, Len(s)) = s

\* The connections the server has accepted and not yet dropped.
Accepted == {c \in Clients : srv[c] = "accepted"}

\* C24: the server serves one connection at a time.  A connection is accepted
\* only from the accept loop with no other connection in service; the frames
\* of a connection that waits to be accepted stay unread; every frame the
\* server reads is the next one of the connection in service; and when that
\* connection's loop is left the server is back at accept.
C24_OneConnectionAtATime ==
    [][\A c \in Clients :
        /\ (srv[c] # "accepted" /\ srv'[c] = "accepted") =>
               (spc = "accept" /\ Accepted = {} /\ sconn' = c)
        /\ (srv[c] = "backlog" /\ srv'[c] = "backlog") => IsPrefix(c2s[c], c2s'[c])
        /\ (sreq' # sreq /\ sreq' # NoFrame) =>
               (sconn \in Accepted /\ sconn' = sconn /\ sreq' = Head(c2s[sconn]))
        /\ (spc = "break" /\ spc' # "break") => (spc' = "accept" /\ Accepted' = {})
      ]_vars

\* The first connection ended with EndTransmission and was dropped; the server
\* has since accepted the other connection and answered a request on it.
C24_Witness ==
    \E c, d \in Clients :
        /\ c \in ended /\ srv[c] = "closed"
        /\ sconn = d /\ srv[d] = "accepted" /\ s2c[d] # <<>>

(***************************************************************************)
(* Client calls that are dropped before they return                        *)
(***************************************************************************)

\* The future of a call is dropped at one of its await points (lock(),
\* write_serde, read_serde), for instance by a timeout around it: its
\* MutexGuard and locals are dropped with it.  What it wrote stays written.
CallCancel(p) ==
    /\ cpc[p] \in {"lock", "write", "read"}
    /\ cpc' = [cpc EXCEPT ![p] = Left(ckind[p])]
    /\ lock' = [lock EXCEPT ![ClientOf(p)] = IF @ = p THEN NoCaller ELSE @]
    /\ ckind' = [ckind EXCEPT ![p] = ""]
    /\ batch' = [batch EXCEPT ![p] = <<>>]
    /\ responses' = [responses EXCEPT ![p] = <<>>]
    /\ ccall' = [ccall EXCEPT ![p] = 0]
    /\ UNCHANGED <<cli, srv, c2s, s2c, spc, sconn, sreq, sresp, ended, calls,
                   notIpcVars>>

CancelNext ==
    \/ IpcNext
    \/ \E p \in Callers : CallCancel(p)

SpecCancel == Init /\ [][CancelNext]_vars

\* The server is inside the connection loop of c.
Serving(c) == sconn = c /\ spc \in {"read", "perform", "write", "write_end"}

\* C25: when close() is about to return Ok it has read TransmissonEnded; the
\* server has read EndTransmission on the connection and is out of the
\* connection's loop, and nothing is left for a later call on the connection
\* to read.
C25_CloseReleases ==
    \A p \in Callers :
        (ckind[p] = "close" /\ cpc[p] = "done") =>
            /\ Len(responses[p]) = 1
            /\ responses[p][1].msg = "TransmissonEnded"
            /\ ClientOf(p) \in ended
            /\ ~Serving(ClientOf(p))
            /\ s2c[ClientOf(p)] = <<>>

\* C26: an error of listener.accept() does not end the server.  From the Err
\* arm the server goes back to accept and nowhere else, with the listener and
\* every connection as they were; the accept loop itself is left only by a
\* connection being accepted.
C26_AcceptErrorSurvived ==
    [][/\ (spc = "accept_err" /\ spc' # "accept_err") =>
              (spc' = "accept" /\ sconn' = sconn /\ \A c \in Clients : srv'[c] = srv[c])
       /\ (spc = "accept" /\ spc' \notin {"accept", "accept_err"}) =>
              (spc' = "read" /\ sconn' \in Clients /\ srv[sconn'] = "backlog"
               /\ srv'[sconn'] = "accepted")
      ]_vars

\* accept() has just failed while a connection with a request already written
\* waits in the backlog.
C26_Witness ==
    /\ spc = "accept_err"
    /\ \E c \in Clients : srv[c] = "backlog" /\ c2s[c] # <<>>

(***************************************************************************)
(* Framing: tara-util/src/ipc/socket.rs, with bincode's encoding of the    *)
(* two message enums of tara-util/src/ipc/mod.rs:17-38                      *)
(***************************************************************************)

\* Frames written on the stream and not yet read.
MaxFrames == 2

\* enum ActionMessage and enum ResponseMessage, in declaration order: bincode
\* writes a variant as its index in this order.
ActionVariants == <<"EndTransmission", "NoOp", "GetCommandLogs">>

ResponseVariants == <<"TransmissonEnded", "ActionCompleted", "ActionFailed", "CommandLogs">>

Variants(enum) == IF enum = "ActionMessage" THEN ActionVariants ELSE ResponseVariants

Enums == {"ActionMessage", "ResponseMessage"}

\* DateTime<Utc> values: chrono serialises one as its RFC 3339 string, here
\* shortened to one character.
Dates == {<<49>>, <<50>>}

\* The String of ActionFailed.
Texts == {<<>>, <<101>>}

\* The Vec of CommandLogs; a LoggedCommandEvent is reduced to its
\* called_from_guild field.
LogLists == {<<>>, <<1>>, <<0, 1>>}

\* A message: its enum, the index of its variant, and its fields.  a is the
\* Option<DateTime> upper_cutoff (empty or one date); b is lower_cutoff, the
\* String of ActionFailed or the Vec of CommandLogs.
Msg(enum, variant, a, b) == [enum |-> enum, variant |-> variant, a |-> a, b |-> b]

Values(enum) ==
    IF enum = "ActionMessage"
    THEN {Msg(enum, 0, <<>>, <<>>), Msg(enum, 1, <<>>, <<>>)}
         \cup {Msg(enum, 2, a, b) : a \in {<<>>} \cup {<<d>> : d \in Dates}, b \in Dates}
    ELSE {Msg(enum, 0, <<>>, <<>>), Msg(enum, 1, <<>>, <<>>)}
         \cup {Msg(enum, 2, <<>>, b) : b \in Texts}
         \cup {Msg(enum, 3, <<>>, b) : b \in LogLists}

RECURSIVE LittleEndian(_, _)
\* The w low bytes of n, least significant first.
LittleEndian(n, w) ==
    IF w = 0 THEN <<>> ELSE <<n % 256>> \o LittleEndian(n \div 256, w - 1)

RECURSIVE ValueBigEndian(_)
\* The bytes read most significant first.
ValueBigEndian(bs) ==
    IF bs = <<>> THEN 0
    ELSE 256 * ValueBigEndian(SubSeq(bs, 1, Len(bs) - 1)) + bs[Len(bs)]

RECURSIVE Value(_)
\* read_u32::<LittleEndian> and bincode's fixed-width integers.
Value(bs) == IF bs = <<>> THEN 0 ELSE Head(bs) + 256 * Value(Tail(bs))

\* bincode: a string or a sequence is its length as u64, then its elements.
Sized(s) == LittleEndian(Len(s), 8) \o s

\* bincode::serialize(&data)
Serialize(m) ==
    LittleEndian(m.variant, 4) \o
    (CASE Variants(m.enum)[m.variant + 1] = "GetCommandLogs" ->
              (IF m.a = <<>> THEN <<0>> ELSE <<1>> \o Sized(m.a[1])) \o Sized(m.b)
       [] Variants(m.enum)[m.variant + 1] \in {"ActionFailed", "CommandLogs"} -> Sized(m.b)
       [] OTHER -> <<>>)

\* A decoding step that failed.
Fail == [ok |-> FALSE, val |-> <<>>, rest |-> <<>>]

Took(v, rest) == [ok |-> TRUE, val |-> v, rest |-> rest]

\* The next w bytes as an integer.
TakeInt(bs, w) ==
    IF Len(bs) < w THEN Fail
    ELSE Took(Value(SubSeq(bs, 1, w)), SubSeq(bs, w + 1, Len(bs)))

\* A length and that many elements.
TakeSized(bs) ==
    LET l == TakeInt(bs, 8) IN
    IF ~l.ok THEN Fail
    ELSE IF Len(l.rest) < l.val THEN Fail
    ELSE Took(SubSeq(l.rest, 1, l.val), SubSeq(l.rest, l.val + 1, Len(l.rest)))

\* A DateTime: a string that parses as a date.
TakeDate(bs) ==
    LET s == TakeSized(bs) IN
    IF s.ok /\ s.val \in Dates THEN s ELSE Fail

\* Option<DateTime>: a tag byte 0 or 1, then the date.
TakeOption(bs) ==
    IF bs = <<>> THEN Fail
    ELSE IF bs[1] = 0 THEN Took(<<>>, Tail(bs))
    ELSE IF bs[1] = 1
         THEN LET d == TakeDate(Tail(bs)) IN
              IF d.ok THEN Took(<<d.val>>, d.rest) ELSE Fail
    ELSE Fail

\* String: valid UTF-8 (here: ASCII).
TakeString(bs) ==
    LET s == TakeSized(bs) IN
    IF s.ok /\ \A i \in 1..Len(s.val) : s.val[i] < 128 THEN s ELSE Fail

\* Vec<LoggedCommandEvent>: each bool is the byte 0 or 1.
TakeLogs(bs) ==
    LET s == TakeSized(bs) IN
    IF s.ok /\ \A i \in 1..Len(s.val) : s.val[i] \in {0, 1} THEN s ELSE Fail

\* bincode::deserialize::<T>(&bytes): the variant index, then the variant's
\* fields; bytes after the value are ignored.
Deserialize(enum, bytes) ==
    LET v == TakeInt(bytes, 4) IN
    IF ~v.ok THEN Err("Serialization")
    ELSE IF v.val >= Len(Variants(enum)) THEN Err("Serialization")
    ELSE LET name == Variants(enum)[v.val + 1] IN
         CASE name = "GetCommandLogs" ->
                  LET a == TakeOption(v.rest) IN
                  IF ~a.ok THEN Err("Serialization")
                  ELSE LET b == TakeDate(a.rest) IN
                       IF ~b.ok THEN Err("Serialization")
                       ELSE Ok(Msg(enum, v.val, a.val, b.val))
           [] name = "ActionFailed" ->
                  LET b == TakeString(v.rest) IN
                  IF ~b.ok THEN Err("Serialization") ELSE Ok(Msg(enum, v.val, <<>>, b.val))
           [] name = "CommandLogs" ->
                  LET b == TakeLogs(v.rest) IN
                  IF ~b.ok THEN Err("Serialization") ELSE Ok(Msg(enum, v.val, <<>>, b.val))
           [] OTHER -> Ok(Msg(enum, v.val, <<>>, <<>>))

\* The length of the frame, header included, as the prefix.
PrefixOfFrame(bytes) == LittleEndian(Len(bytes) + 4, 4)

\* write_u32::<LittleEndian>(u32::try_from(bytes.len()).unwrap()): the four
\* bytes of the length.  The unwrap panics for a length above u32::MAX, which
\* no payload here comes near.
Prefix(bytes) == LittleEndian(Len(bytes), 4)

\* What write_serde puts on the stream for a payload.
Frame(bytes) == Prefix(bytes) \o bytes

\* A read that returns what there is and leaves the rest of the buffer zero.
ReadSome(bs, n) ==
    IF Len(bs) >= n THEN Took(SubSeq(bs, 1, n), SubSeq(bs, n + 1, Len(bs)))
    ELSE Took(bs \o [i \in 1..(n - Len(bs)) |-> 0], <<>>)

\* read_exact(&mut bytes) into vec![0; n]: n bytes, or UnexpectedEof.
ReadExact(bs, n) ==
    IF Len(bs) >= n THEN Took(SubSeq(bs, 1, n), SubSeq(bs, n + 1, Len(bs)))
    ELSE Fail

\* read_serde::<T> on the bytes bs followed by end of stream: its Result and
\* the bytes it leaves.
ReadResult(enum, bs) ==
    LET size == ReadExact(bs, 4) IN
    IF ~size.ok THEN [result |-> Err("Io"), rest |-> <<>>]
    ELSE LET bytes == ReadExact(size.rest, Value(size.val)) IN
         IF ~bytes.ok THEN [result |-> Err("Io"), rest |-> <<>>]
         ELSE [result |-> Deserialize(enum, bytes.val), rest |-> bytes.rest]

\* The stream holds a whole frame: read_serde does not have to wait.
WholeFrame(bs) == Len(bs) >= 4 /\ Len(bs) - 4 >= Value(SubSeq(bs, 1, 4))

\* Payloads a peer may frame that are not the encoding of a value alone: an
\* empty one, an unknown variant, a variant cut short, and a value followed
\* by one more byte.
RawPayloads ==
    { <<>>,
      <<9, 0, 0, 0>>,
      <<2, 0, 0, 0, 5, 0, 0, 0, 0, 0, 0, 0>>,
      <<1, 0, 0, 0, 7>> }

\* The two ends agree on the type the stream carries.
FrameOpen(enum) ==
    /\ fenum = ""
    /\ fenum' = enum
    /\ UNCHANGED <<wire, wclosed, inflight, got, notFrameVars>>

\* write_serde(data): serialise, write the prefix, write the payload.
WriteSerde(m) ==
    /\ fenum # ""
    /\ m \in Values(fenum)
    /\ ~wclosed
    /\ Len(inflight) < MaxFrames
    /\ wire' = wire \o Frame(Serialize(m))
    /\ inflight' = Append(inflight, [kind |-> "serde", val |-> m,
                                     size |-> Len(Frame(Serialize(m)))])
    /\ UNCHANGED <<fenum, wclosed, got, notFrameVars>>

\* A peer frames a payload of its own.
WriteRaw(payload) ==
    /\ fenum # ""
    /\ ~wclosed
    /\ Len(inflight) < MaxFrames
    /\ wire' = wire \o LittleEndian(Len(payload), 4) \o payload
    /\ inflight' = Append(inflight, [kind |-> "raw", val |-> NoValue,
                                     size |-> Len(payload) + 4])
    /\ UNCHANGED <<fenum, wclosed, got, notFrameVars>>

\* Where a frame may be cut: inside the prefix, right after it, inside the
\* variant index and inside a field.
Cuts == {2, 4, 6, 12}

\* The writer goes away after the first k bytes of a frame.
WriteCut(m, k) ==
    /\ fenum # ""
    /\ m \in Values(fenum)
    /\ ~wclosed
    /\ Len(inflight) < MaxFrames
    /\ k \in 1..(Len(Frame(Serialize(m))) - 1)
    /\ wire' = wire \o SubSeq(Frame(Serialize(m)), 1, k)
    /\ inflight' = Append(inflight, [kind |-> "cut", val |-> NoValue, size |-> k])
    /\ wclosed' = TRUE
    /\ UNCHANGED <<fenum, got, notFrameVars>>

\* The writer closes its end between frames.
CloseWriter ==
    /\ fenum # ""
    /\ ~wclosed
    /\ wclosed' = TRUE
    /\ UNCHANGED <<fenum, wire, inflight, got, notFrameVars>>

\* read_serde::<T>() returns: it had a whole frame to read, or met the end of
\* the stream.
ReadSerde ==
    /\ fenum # ""
    /\ WholeFrame(wire) \/ wclosed
    /\ got' = ReadResult(fenum, wire).result
    /\ wire' = ReadResult(fenum, wire).rest
    /\ inflight' = IF ReadResult(fenum, wire).rest = <<>> THEN <<>> ELSE Tail(inflight)
    /\ UNCHANGED <<fenum, wclosed, notFrameVars>>

FrameNext ==
    \/ \E enum \in Enums : FrameOpen(enum)
    \/ \E m \in Values("ActionMessage") \cup Values("ResponseMessage") : WriteSerde(m)
    \/ \E payload \in RawPayloads : WriteRaw(payload)
    \/ \E m \in Values("ActionMessage") \cup Values("ResponseMessage") :
          \E k \in Cuts : WriteCut(m, k)
    \/ CloseWriter
    \/ ReadSerde

SpecFrame == Init /\ [][FrameNext]_vars

(***************************************************************************)
(* Framing properties                                                      *)
(***************************************************************************)

\* A step in which read_serde took bytes from the stream.
ReadStep == Len(wire') < Len(wire)

\* C27: framing round trip.  When the next frame on the stream was written by
\* write_serde(v), read_serde returns Ok(v) and takes exactly that frame's
\* bytes, leaving the frames written after it in place; this holds for each
\* frame of a back-to-back sequence in turn.
C27_FramingRoundTrip ==
    [][(ReadStep /\ inflight # <<>> /\ Head(inflight).kind = "serde") =>
           /\ got' = Ok(Head(inflight).val)
           /\ wire' = SubSeq(wire, Head(inflight).size + 1, Len(wire))
           /\ inflight' = Tail(inflight)
      ]_vars

\* A GetCommandLogs with both cutoffs was read back; the frame written right
\* behind it is still whole on the stream.
C27_Witness ==
    /\ got.res = "Ok"
    /\ got.val.enum = "ActionMessage" /\ got.val.variant = 2 /\ got.val.a # <<>>
    /\ Len(inflight) = 1
    /\ Head(inflight).kind = "serde"
    /\ Len(wire) = Head(inflight).size

\* The bytes a step appended to the stream.
Written == SubSeq(wire', Len(wire) + 1, Len(wire'))

\* C28: write_serde(v) appends exactly 4 + n bytes, n being the length of
\* bincode's encoding of v: the four bytes of n, least significant first,
\* then the n bytes of the encoding.
C28_LengthPrefix ==
    [][(Len(inflight') = Len(inflight) + 1 /\ inflight'[Len(inflight')].kind = "serde") =>
           LET m == inflight'[Len(inflight')].val
               n == Len(Serialize(m))
           IN  /\ SubSeq(wire', 1, Len(wire)) = wire
               /\ Len(Written) = 4 + n
               /\ Written[1] + 256 * Written[2] + 65536 * Written[3]
                      + 16777216 * Written[4] = n
               /\ SubSeq(Written, 5, 4 + n) = Serialize(m)
      ]_vars

\* A frame whose payload has fields (two dates) stands last on the stream.
C28_Witness ==
    /\ inflight # <<>>
    /\ inflight[Len(inflight)].kind = "serde"
    /\ inflight[Len(inflight)].val.a # <<>>
    /\ inflight[Len(inflight)].size = 27
    /\ SubSeq(wire, Len(wire) - 26, Len(wire) - 23) = <<23, 0, 0, 0>>

\* The payload starts with the encoding of a value of the enum.
Decodable(enum, payload) ==
    \E m \in Values(enum) : IsPrefix(Serialize(m), payload)

\* The stream ends before the four bytes of the prefix, or before the number
\* of payload bytes the prefix announces.
PartialFrame(bs) ==
    \/ Len(bs) < 4
    \/ Len(bs) - 4 < bs[1] + 256 * bs[2] + 65536 * bs[3] + 16777216 * bs[4]

\* The payload of the first frame of bs.
Payload(bs) == SubSeq(bs, 5, 4 + bs[1] + 256 * bs[2] + 65536 * bs[3] + 16777216 * bs[4])

\* C29: read_serde returns IpcErr::Io when the stream ends inside the prefix
\* or inside the payload, IpcErr::Serialization when the payload is whole and
\* does not decode, and Ok only for a whole frame whose payload decodes.
C29_ReadErrors ==
    [][(ReadStep \/ got' # got) =>
           /\ PartialFrame(wire) => got'.res = "Io"
           /\ (~PartialFrame(wire) /\ ~Decodable(fenum, Payload(wire))) =>
                  got'.res = "Serialization"
           /\ got'.res = "Ok" =>
                  (~PartialFrame(wire) /\ Decodable(fenum, Payload(wire)))
      ]_vars

\* A payload that does not decode was answered with Serialization; the frame
\* behind it was cut short by the writer going away.
C29_Witness ==
    /\ got.res = "Serialization"
    /\ wclosed
    /\ Len(inflight) = 1
    /\ Head(inflight).kind = "cut"
    /\ PartialFrame(wire)

(***************************************************************************)
(* ActionReceiver::perform of the bot: tara/src/ipc.rs:14-51, called from  *)
(* the connection loop of start_server (tara-util/src/ipc/mod.rs:107-119)  *)
(***************************************************************************)

\* The rows of a command log: a logged event with its time, a row that does
\* not deserialise as a LoggedCommandEvent, a row at which reading fails.
Event(d) == [kind |-> "event", time |-> d]

Garbled == [kind |-> "garbled", time |-> <<>>]

Unreadable == [kind |-> "unreadable", time |-> <<>>]

\* The command logs of the model.
LogFiles ==
    {[exists |-> FALSE, rows |-> <<>>]} \cup
    {[exists |-> TRUE, rows |-> r] :
        r \in { <<>>,
                <<Event(<<49>>)>>,
                <<Event(<<49>>), Event(<<50>>)>>,
                <<Event(<<50>>), Event(<<49>>), Event(<<50>>)>>,
                <<Garbled>>,
                <<Event(<<49>>), Garbled, Event(<<50>>)>>,
                <<Unreadable>>,
                <<Event(<<50>>), Unreadable>> }}

\* What Utc::now() may give when upper_cutoff is None.
Nows == {<<50>>, <<51>>}

\* The order that also holds between a date and itself.
NotAfter(d, e) == d[1] <= e[1]

\* DateTime's order.
Before(d, e) == d[1] < e[1]

\* value.to_string() of the error of each step.
ErrorToString(e) ==
    CASE e = "open" -> <<111>>
      [] e = "read" -> <<114>>
      [] e = "parse" -> <<112>>

\* impl<T: std::error::Error> From<T> for ResponseMessage (mod.rs:40-42),
\* applied by the `?` of get_command_logs1.
FromError(e) == Msg("ResponseMessage", 2, <<>>, ErrorToString(e))

\* ResponseMessage::CommandLogs(command_events); an event is written as the
\* character of its time.
CommandLogs(events) == Msg("ResponseMessage", 3, <<>>, [i \in 1..Len(events) |-> events[i][1]])

\* The variant of a message.
VariantOf(m) == Variants(m.enum)[m.variant + 1]

\* The bot starts in its environment: with or without a project directory,
\* and with some command log.
EnvSetup(dirs, file) ==
    /\ ppc = "setup"
    /\ dirs \in {"some", "none"}
    /\ file \in LogFiles
    /\ dirs = "none" => ~file.exists
    /\ pdirs' = dirs
    /\ logfile' = file
    /\ ppc' = "idle"
    /\ UNCHANGED <<paction, pupper, prec, pevents, presp, pout, notPerformVars>>

\* mod.rs:108-111: the server reads an action and looks whether it is
\* EndTransmission.
TakeAction(action) ==
    /\ ppc = "idle"
    /\ action \in Values("ActionMessage")
    /\ paction' = action
    /\ ppc' = IF VariantOf(action) = "EndTransmission" THEN "end" ELSE "perform"
    /\ pupper' = <<>>
    /\ prec' = 0
    /\ pevents' = <<>>
    /\ presp' = NoValue
    /\ pout' = <<>>
    /\ UNCHANGED <<pdirs, logfile, notPerformVars>>

\* mod.rs:112-113: conn.write_serde(TransmissonEnded).await?; break;
AnswerEnd ==
    /\ ppc = "end"
    /\ pout' = Append(pout, Msg("ResponseMessage", 0, <<>>, <<>>))
    /\ ppc' = "closed"
    /\ UNCHANGED <<pdirs, logfile, paction, pupper, prec, pevents, presp, notPerformVars>>

\* mod.rs:98-99: the next connection is accepted.
NextConnection ==
    /\ ppc = "closed"
    /\ ppc' = "idle"
    /\ UNCHANGED <<pdirs, logfile, paction, pupper, prec, pevents, presp, pout, notPerformVars>>

\* ipc.rs:18: ActionMessage::NoOp => ResponseMessage::ActionCompleted
PerformNoOp ==
    /\ ppc = "perform"
    /\ VariantOf(paction) = "NoOp"
    /\ presp' = Msg("ResponseMessage", 1, <<>>, <<>>)
    /\ ppc' = "respond"
    /\ UNCHANGED <<pdirs, logfile, paction, pupper, prec, pevents, pout, notPerformVars>>

\* ipc.rs:26 and 39-41: upper_cutoff.unwrap_or_else(Utc::now), then
\* File::open(paths::TARA_COMMAND_LOG_PATH.as_path()).await?.  The path is
\* TARA_PROJECT_DIR.as_ref().unwrap().data_dir().join(..) (paths.rs:121-126):
\* the unwrap panics when there is no project directory.
OpenLog(utcnow) ==
    /\ ppc = "perform"
    /\ VariantOf(paction) = "GetCommandLogs"
    /\ utcnow \in Nows
    /\ pupper' = IF paction.a = <<>> THEN utcnow ELSE paction.a[1]
    /\ IF pdirs = "none"
       THEN /\ ppc' = "panicked"
            /\ UNCHANGED <<prec, presp>>
       ELSE IF ~logfile.exists
       THEN /\ presp' = FromError("open")
            /\ ppc' = "respond"
            /\ UNCHANGED prec
       ELSE /\ ppc' = "read"
            /\ prec' = 1
            /\ UNCHANGED presp
    /\ UNCHANGED <<pdirs, logfile, paction, pevents, pout, notPerformVars>>

\* ipc.rs:44-50: one turn of the while loop, or its end.
ReadRecord ==
    /\ ppc = "read"
    /\ IF prec > Len(logfile.rows)
       THEN /\ presp' = CommandLogs(pevents)
            /\ ppc' = "respond"
            /\ UNCHANGED <<prec, pevents>>
       ELSE IF logfile.rows[prec].kind = "unreadable"
       THEN /\ presp' = FromError("read")
            /\ ppc' = "respond"
            /\ UNCHANGED <<prec, pevents>>
       ELSE IF logfile.rows[prec].kind = "garbled"
       THEN /\ presp' = FromError("parse")
            /\ ppc' = "respond"
            /\ UNCHANGED <<prec, pevents>>
       ELSE /\ pevents' = IF Before(paction.b, logfile.rows[prec].time)
                             /\ Before(logfile.rows[prec].time, pupper)
                          THEN Append(pevents, logfile.rows[prec].time)
                          ELSE pevents
            /\ prec' = prec + 1
            /\ UNCHANGED <<ppc, presp>>
    /\ UNCHANGED <<pdirs, logfile, paction, pupper, pout, notPerformVars>>

\* mod.rs:117-118: let response = perform(action).await;
\* conn.write_serde(response).await?;
WriteResponse ==
    /\ ppc = "respond"
    /\ pout' = Append(pout, presp)
    /\ ppc' = "idle"
    /\ UNCHANGED <<pdirs, logfile, paction, pupper, prec, pevents, presp, notPerformVars>>

PerformNext ==
    \/ \E dirs \in {"some", "none"}, file \in LogFiles : EnvSetup(dirs, file)
    \/ \E action \in Values("ActionMessage") : TakeAction(action)
    \/ AnswerEnd
    \/ NextConnection
    \/ PerformNoOp
    \/ \E utcnow \in Nows : OpenLog(utcnow)
    \/ ReadRecord
    \/ WriteResponse

SpecPerform == Init /\ [][PerformNext]_vars

\* The first step of get_command_logs1 that fails on the log and the message
\* of its error, "" if the log can be opened, read and parsed to its end.
LogFailure ==
    IF ~logfile.exists THEN "open"
    ELSE IF \E i \in 1..Len(logfile.rows) : logfile.rows[i].kind # "event"
    THEN LET i == CHOOSE k \in 1..Len(logfile.rows) :
                      /\ logfile.rows[k].kind # "event"
                      /\ \A j \in 1..(k - 1) : logfile.rows[j].kind = "event"
         IN IF logfile.rows[i].kind = "unreadable" THEN "read" ELSE "parse"
    ELSE ""

\* C30: perform never fails outright on GetCommandLogs.  It does not panic;
\* when the log cannot be opened, read or parsed, the response it returns is
\* ActionFailed with the message of that error; and once the server has written
\* for the request, that response is the only one written.
C30_FailuresBecomeActionFailed ==
    /\ ppc # "panicked"
    /\ (VariantOf(paction) = "GetCommandLogs" /\ LogFailure # "") =>
           /\ ppc = "respond" => presp = Msg("ResponseMessage", 2, <<>>, ErrorToString(LogFailure))
           /\ (ppc = "idle" /\ pout # <<>>) =>
                  pout = <<Msg("ResponseMessage", 2, <<>>, ErrorToString(LogFailure))>>

(***************************************************************************)
(* IPC properties: delegation to the action receiver                       *)
(***************************************************************************)

\* The server appended a frame to the connection it serves in this step.
Wrote == sconn # NoClient /\ Len(s2c'[sconn]) > Len(s2c[sconn])

\* That frame.
Answered == s2c'[sconn][Len(s2c'[sconn])]

\* C31: the server never hands EndTransmission to perform: it answers it with
\* TransmissonEnded itself.  Every other action it has read goes to perform
\* once: perform's result is one of the receiver's answers to that action, it
\* is what the next write sends as the response to that request, and after
\* that write the loop reads a new action instead of performing again.
C31_OnlyEndTransmissionInterpreted ==
    [][ /\ (spc' = "perform") => (sreq'.msg # "EndTransmission")
        /\ (spc = "read" /\ spc' = "write_end") => (sreq'.msg = "EndTransmission")
        /\ (spc = "read" /\ spc' \notin {"read", "returned"})
              => (spc' = "write_end" \/ spc' = "perform")
        /\ (spc = "perform" /\ spc' # "perform")
              => (spc' = "write" /\ sreq' = sreq /\ sresp' \in Perform(sreq.msg))
        /\ (spc = "write" /\ Wrote)
              => (/\ Answered.msg = sresp
                  /\ Answered.req = sreq.msg
                  /\ Answered.call = sreq.call
                  /\ Answered.pos = sreq.pos
                  /\ Len(s2c'[sconn]) = Len(s2c[sconn]) + 1)
        /\ (spc = "write") => (spc' \notin {"perform", "write_end"})
        /\ (spc = "write_end" /\ Wrote)
              => (/\ Answered.msg = "TransmissonEnded"
                  /\ Answered.req = "EndTransmission"
                  /\ Len(s2c'[sconn]) = Len(s2c[sconn]) + 1)
      ]_vars

\* The server has read EndTransmission on one connection and is about to write
\* the log answer perform gave for a GetCommandLogs on another.
C31_Witness ==
    /\ spc = "write"
    /\ sreq.msg = "GetCommandLogs"
    /\ sresp = "CommandLogs"
    /\ ended # {}

(***************************************************************************)
(* Registry properties: the two maps                                       *)
(***************************************************************************)

\* No insert is between its two statements and the watcher is between passes
\* (timeout is one statement and never in progress across a step).
Quiescent ==
    /\ \A t \in Tasks : tpc[t] # "insert_timeout"
    /\ wpc \in {"scan", "sleep"}

HandlerIds == {id \in Ids : component_map[id] # NoReg}

ExpiryIds == {id \in Ids : timeout_map[id] # NoTime}

\* C32: whenever no insert, timeout or sweep step is in progress, the ids
\* with a handler entry in component_map are the ids with an expiry entry in
\* timeout_map.
C32_MapsConsistent == Quiescent => HandlerIds = ExpiryIds

(***************************************************************************)
(* Registry under fair scheduling, with cleanups that succeed              *)
(***************************************************************************)

\* The steps of the registry when no cleanup returns Err.
LeakNext ==
    \/ \E t \in Tasks, id \in Ids, cf \in BOOLEAN : InsertMap(t, id, cf)
    \/ \E t \in Tasks : InsertTimeout(t)
    \/ \E t \in Tasks, id \in Ids : RunMissing(t, id)
    \/ \E t \in Tasks, id \in Ids : RunStart(t, id)
    \/ \E t \in Tasks : RunEnd(t)
    \/ \E t \in Tasks, id \in Ids : Timeout(t, id)
    \/ Tick
    \/ WatcherScan
    \/ WatcherRemove
    \/ CleanupOk
    \/ WatcherUnmap
    \/ WatcherPassEnd
    \/ WatcherWake

\* The runtime schedules every task that can make a step: the watcher task,
\* a started insert, a running handler; the clock advances.  tokio's RwLock
\* queues its waiters in order, so readers that arrive after a waiting writer
\* do not overtake it: the read guards drain again and again, and a writer
\* that is enabled again and again gets the guard.
SpecRegFair ==
    /\ Init
    /\ [][LeakNext]_vars
    /\ []<>(Readers = {})
    /\ WF_vars(WatcherScan)
    /\ SF_vars(WatcherRemove)
    /\ WF_vars(CleanupOk)
    /\ WF_vars(WatcherUnmap)
    /\ WF_vars(WatcherPassEnd)
    /\ WF_vars(WatcherWake)
    /\ WF_vars(Tick)
    /\ \A t \in Tasks : WF_vars(InsertTimeout(t))
    /\ \A t \in Tasks : WF_vars(RunEnd(t))

\* The registration is the entry component_map holds for its id.
Registered(r) == regId[r] # "" /\ component_map[regId[r]] = r

\* The insert that made the registration has returned, no later insert of its
\* id is between its two statements, and the expiry timeout_map holds for the
\* id, if any, is one the clock reaches.
Settled(r) ==
    /\ Registered(r)
    /\ expiresAt[r] # NoTime
    /\ \A t \in Tasks : ~(tpc[t] = "insert_timeout" /\ targ[t] = regId[r])
    /\ timeout_map[regId[r]] <= MaxTime

\* C33: under fair scheduling and with cleanups that succeed, every
\* registration whose insert has returned is eventually no longer in the
\* registry, whatever sweep pass its insert overlapped.
C33_NoRegistrationLeaks == \A r \in Regs : Settled(r) ~> ~Registered(r)

(***************************************************************************)
(* Handlers that register components                                       *)
(***************************************************************************)

\* The handler run is awaiting calls args.component_map.insert(..) on the
\* registry it was started from (CommandArguments carries a clone of the
\* ComponentMap): it is now at component_map.write().await of insert, inside
\* f.run(params).await of run.
HandlerCallsInsert(t) ==
    /\ tpc[t] = "handler"
    /\ ops < MaxOps
    /\ ops' = ops + 1
    /\ tpc' = [tpc EXCEPT ![t] = "reinsert"]
    /\ UNCHANGED <<component_map, timeout_map, regId, regCleanup, nextReg, now,
                   targ, treg, watcherVars, histVars, notRegVars>>

ReinsertNext ==
    \/ RegNext
    \/ \E t \in Tasks : HandlerCallsInsert(t)

SpecReinsert == Init /\ [][ReinsertNext]_vars

\* C34: a handler started by run that calls insert on the same registry gets
\* through insert: when no other task holds a guard of component_map, the
\* insert the handler is waiting in can take the write guard and go on.
C34_HandlerReinsertCompletes ==
    \A t \in Tasks :
        (tpc[t] = "reinsert" /\ Readers \subseteq {t} /\ ~WriteLocked)
            => ENABLED (\E id \in Ids, cf \in BOOLEAN : InsertMap(t, id, cf))

(***************************************************************************)
(* IPC properties: dropped calls                                           *)
(***************************************************************************)

\* C35: also after calls on the same Client were dropped between their write
\* and their read, a send_action that is about to return Ok returns the
\* response the server gave to the action this call wrote.
C35_CancelKeepsSync ==
    \A p \in Callers :
        (cpc[p] = "done" /\ ckind[p] = "send_action") =>
            /\ Len(responses[p]) = 1
            /\ responses[p][1].call = ccall[p]
            /\ responses[p][1].req = batch[p][1]
            /\ responses[p][1].msg \in Answers(batch[p][1])

(***************************************************************************)
(* Music commands: play, leave, stop / pause / unpause, track notifiers    *)
(***************************************************************************)

\* MUTEX.lock().await is granted.
Unlocked(m) == mowner[m] = NoTask

\* The guard of m is bound to a local of t, or is a temporary that lives on.
Lock(owner, m, t) == [owner EXCEPT ![m] = t]

\* The guards t holds are dropped: the function returns.
DropGuards(owner, t) == [m \in Mutexes |-> IF owner[m] = t THEN NoTask ELSE owner[m]]

\* The first lock().await of each command and notifier.
Entry ==
    [play |-> "play_playing", leave |-> "leave_tracks", stop |-> "control_tracks",
     pause |-> "control_tracks", unpause |-> "control_tracks",
     TrackPause |-> "notify_playing", TrackPlay |-> "notify_playing",
     TrackEnd |-> "end_channel"]

\* Music::run dispatches a subcommand, or songbird fires a track event.
MusicStart(t, what) ==
    /\ mpc[t] = "idle"
    /\ mpc' = [mpc EXCEPT ![t] = Entry[what]]
    /\ UNCHANGED <<mowner, currently_playing, guild_to_track_map, guild_channel_map,
                   notMusicVars>>

\* play: let mut currently_playing = CURRENTLY_PLAYING.lock().await;
\*       currently_playing.insert(uuid, (track_info, handle.clone()));
PlayLockPlaying(t) ==
    /\ mpc[t] = "play_playing"
    /\ Unlocked("CURRENTLY_PLAYING")
    /\ mowner' = Lock(mowner, "CURRENTLY_PLAYING", t)
    /\ currently_playing' = TRUE
    /\ mpc' = [mpc EXCEPT ![t] = "play_tracks"]
    /\ UNCHANGED <<guild_to_track_map, guild_channel_map, notMusicVars>>

\* play: GUILD_TO_TRACK_MAP.lock().await.insert(guild.id, uuid);
PlayInsertTrack(t) ==
    /\ mpc[t] = "play_tracks"
    /\ Unlocked("GUILD_TO_TRACK_MAP")
    /\ guild_to_track_map' = TRUE
    /\ mpc' = [mpc EXCEPT ![t] = "play_channel"]
    /\ UNCHANGED <<mowner, currently_playing, guild_channel_map, notMusicVars>>

\* play: GUILD_CHANNEL_MAP.lock().await.insert(uuid, message.id);
PlayInsertChannel(t) ==
    /\ mpc[t] = "play_channel"
    /\ Unlocked("GUILD_CHANNEL_MAP")
    /\ guild_channel_map' = TRUE
    /\ mpc' = [mpc EXCEPT ![t] = "play_edit"]
    /\ UNCHANGED <<mowner, currently_playing, guild_to_track_map, notMusicVars>>

\* play: message.edit(..).await?; Ok(CommandResponse::None)
PlayReturn(t) ==
    /\ mpc[t] = "play_edit"
    /\ mowner' = DropGuards(mowner, t)
    /\ mpc' = [mpc EXCEPT ![t] = "idle"]
    /\ UNCHANGED <<currently_playing, guild_to_track_map, guild_channel_map, notMusicVars>>

\* leave: let mut guild_track_map = GUILD_TO_TRACK_MAP.lock().await;
\*        if let Some(uuid) = guild_track_map.remove(&guild_id) { .. }
LeaveLockTracks(t) ==
    /\ mpc[t] = "leave_tracks"
    /\ Unlocked("GUILD_TO_TRACK_MAP")
    /\ guild_to_track_map' = FALSE
    /\ IF guild_to_track_map
       THEN /\ mowner' = Lock(mowner, "GUILD_TO_TRACK_MAP", t)
            /\ mpc' = [mpc EXCEPT ![t] = "leave_playing"]
       ELSE /\ mpc' = [mpc EXCEPT ![t] = "idle"]
            /\ UNCHANGED mowner
    /\ UNCHANGED <<currently_playing, guild_channel_map, notMusicVars>>

\* leave: CURRENTLY_PLAYING.lock().await.remove(&uuid);
LeaveRemovePlaying(t) ==
    /\ mpc[t] = "leave_playing"
    /\ Unlocked("CURRENTLY_PLAYING")
    /\ currently_playing' = FALSE
    /\ mpc' = [mpc EXCEPT ![t] = "leave_channel"]
    /\ UNCHANGED <<mowner, guild_to_track_map, guild_channel_map, notMusicVars>>

\* leave: GUILD_CHANNEL_MAP.lock().await.remove(&uuid); and the return.
LeaveRemoveChannel(t) ==
    /\ mpc[t] = "leave_channel"
    /\ Unlocked("GUILD_CHANNEL_MAP")
    /\ guild_channel_map' = FALSE
    /\ mowner' = DropGuards(mowner, t)
    /\ mpc' = [mpc EXCEPT ![t] = "idle"]
    /\ UNCHANGED <<currently_playing, guild_to_track_map, notMusicVars>>

\* stop, pause, unpause: let guild_track_map = GUILD_TO_TRACK_MAP.lock().await;
\*                       let uuid = guild_track_map.get(&guild_id).ok_or_else(..)?;
ControlLockTracks(t) ==
    /\ mpc[t] = "control_tracks"
    /\ Unlocked("GUILD_TO_TRACK_MAP")
    /\ IF guild_to_track_map
       THEN /\ mowner' = Lock(mowner, "GUILD_TO_TRACK_MAP", t)
            /\ mpc' = [mpc EXCEPT ![t] = "control_playing"]
       ELSE /\ mpc' = [mpc EXCEPT ![t] = "idle"]
            /\ UNCHANGED mowner
    /\ UNCHANGED <<currently_playing, guild_to_track_map, guild_channel_map, notMusicVars>>

\* stop, pause, unpause: let currently_playing = CURRENTLY_PLAYING.lock().await;
\* then the get, the call on the track handle and the return, none of which awaits.
ControlLockPlaying(t) ==
    /\ mpc[t] = "control_playing"
    /\ Unlocked("CURRENTLY_PLAYING")
    /\ mowner' = DropGuards(mowner, t)
    /\ mpc' = [mpc EXCEPT ![t] = "idle"]
    /\ UNCHANGED <<currently_playing, guild_to_track_map, guild_channel_map, notMusicVars>>

\* TrackPauseNotifier / TrackPlayNotifier:
\*   let currently_playing = CURRENTLY_PLAYING.lock().await;
\*   if let Some((track, _)) = currently_playing.get(&uuid).cloned() { .. }
NotifyLockPlaying(t) ==
    /\ mpc[t] = "notify_playing"
    /\ Unlocked("CURRENTLY_PLAYING")
    /\ IF currently_playing
       THEN /\ mowner' = Lock(mowner, "CURRENTLY_PLAYING", t)
            /\ mpc' = [mpc EXCEPT ![t] = "notify_channel"]
       ELSE /\ mpc' = [mpc EXCEPT ![t] = "idle"]
            /\ UNCHANGED mowner
    /\ UNCHANGED <<currently_playing, guild_to_track_map, guild_channel_map, notMusicVars>>

\*   if let Some(message_id) = GUILD_CHANNEL_MAP.lock().await.get(&uuid).cloned() { .. }
\* The guard is a temporary of the scrutinee: it lives to the end of the if let.
NotifyLockChannel(t) ==
    /\ mpc[t] = "notify_channel"
    /\ Unlocked("GUILD_CHANNEL_MAP")
    /\ IF guild_channel_map
       THEN /\ mowner' = Lock(mowner, "GUILD_CHANNEL_MAP", t)
            /\ mpc' = [mpc EXCEPT ![t] = "notify_edit"]
       ELSE /\ mowner' = DropGuards(mowner, t)
            /\ mpc' = [mpc EXCEPT ![t] = "idle"]
    /\ UNCHANGED <<currently_playing, guild_to_track_map, guild_channel_map, notMusicVars>>

\*   EditMessage::new().add_embed(embed).execute(..).await resolves.
NotifyReturn(t) ==
    /\ mpc[t] = "notify_edit"
    /\ mowner' = DropGuards(mowner, t)
    /\ mpc' = [mpc EXCEPT ![t] = "idle"]
    /\ UNCHANGED <<currently_playing, guild_to_track_map, guild_channel_map, notMusicVars>>

\* TrackEndNotifier:
\*   if let Some(message_id) = GUILD_CHANNEL_MAP.lock().await.remove(&uuid) { .. }
EndLockChannel(t) ==
    /\ mpc[t] = "end_channel"
    /\ Unlocked("GUILD_CHANNEL_MAP")
    /\ guild_channel_map' = FALSE
    /\ IF guild_channel_map
       THEN /\ mowner' = Lock(mowner, "GUILD_CHANNEL_MAP", t)
            /\ mpc' = [mpc EXCEPT ![t] = "end_delete"]
       ELSE /\ mpc' = [mpc EXCEPT ![t] = "idle"]
            /\ UNCHANGED mowner
    /\ UNCHANGED <<currently_playing, guild_to_track_map, notMusicVars>>

\*   self.channel_id.message(..).await and message.delete(..).await resolve.
EndReturn(t) ==
    /\ mpc[t] = "end_delete"
    /\ mowner' = DropGuards(mowner, t)
    /\ mpc' = [mpc EXCEPT ![t] = "idle"]
    /\ UNCHANGED <<currently_playing, guild_to_track_map, guild_channel_map, notMusicVars>>

\* A step of a command or notifier that has started.
MusicStep(t) ==
    \/ PlayLockPlaying(t)
    \/ PlayInsertTrack(t)
    \/ PlayInsertChannel(t)
    \/ PlayReturn(t)
    \/ LeaveLockTracks(t)
    \/ LeaveRemovePlaying(t)
    \/ LeaveRemoveChannel(t)
    \/ ControlLockTracks(t)
    \/ ControlLockPlaying(t)
    \/ NotifyLockPlaying(t)
    \/ NotifyLockChannel(t)
    \/ NotifyReturn(t)
    \/ EndLockChannel(t)
    \/ EndReturn(t)

MusicNext ==
    \/ \E t \in MusicTasks, what \in DOMAIN Entry : MusicStart(t, what)
    \/ \E t \in MusicTasks : MusicStep(t)

SpecMusic == Init /\ [][MusicNext]_vars

\* C36: concurrent music commands never deadlock: while a command or a
\* notifier is between its start and its return, one of those in progress
\* can make its next step.
C36_MusicNeverDeadlocks ==
    (\E t \in MusicTasks : mpc[t] # "idle") => ENABLED (\E t \in MusicTasks : MusicStep(t))

(***************************************************************************)
(* Image search: custom ids, button handlers, cleanup                      *)
(***************************************************************************)

DecimalDigits == <<"0", "1", "2", "3", "4", "5", "6", "7", "8", "9">>

\* Display of an id (a u64): its decimal digits, as a sequence of characters.
RECURSIVE Display(_)
Display(n) ==
    IF n < 10 THEN <<DecimalDigits[n + 1]>>
    ELSE Display(n \div 10) \o <<DecimalDigits[(n % 10) + 1]>>

\* format!("{}/{}", command.channel_id, message.id)
MessagePath(key) == Display(key[1]) \o <<"/">> \o Display(key[2])

Suffixes == [next |-> <<"-", "n", "e", "x", "t">>, prev |-> <<"-", "p", "r", "e", "v">>]

\* format!("{id}-next"), format!("{id}-prev")
CustomId(key, button) == MessagePath(key) \o Suffixes[button]

\* str::split('/'): the pieces between the separators.
RECURSIVE Split(_, _)
Split(s, sep) ==
    IF \A k \in 1..Len(s) : s[k] # sep THEN <<s>>
    ELSE LET k == CHOOSE j \in 1..Len(s) : s[j] = sep /\ \A h \in 1..(j - 1) : s[h] # sep
         IN <<SubSeq(s, 1, k - 1)>> \o Split(SubSeq(s, k + 1, Len(s)), sep)

DigitValue(ch) == (CHOOSE d \in 1..10 : DecimalDigits[d] = ch) - 1

RECURSIVE Number(_)
Number(ds) == IF ds = <<>> THEN 0 ELSE Number(SubSeq(ds, 1, Len(ds) - 1)) * 10 + DigitValue(ds[Len(ds)])

\* str::parse::<u64>: an optional '+' and then one or more decimal digits.
ParseU64(piece) ==
    LET ds == IF piece # <<>> /\ piece[1] = "+" THEN Tail(piece) ELSE piece
    IN IF ds # <<>> /\ \A k \in 1..Len(ds) : \E d \in 1..10 : DecimalDigits[d] = ds[k]
       THEN [ok |-> TRUE, val |-> Number(ds)]
       ELSE [ok |-> FALSE, val |-> 0]

\* buttons_cleanup_handler, up to the key it looks up:
\*   let x = args.0.split('/').map(|x| x.parse::<u64>().unwrap()).collect::<Vec<_>>();
\*   (ChannelId::new(x[0]), MessageId::new(x[1]))
\* A piece that does not parse, a missing second piece and a zero id panic.
CleanupKey(id) ==
    LET x == [k \in 1..Len(Split(id, "/")) |-> ParseU64(Split(id, "/")[k])]
    IN IF \E k \in 1..Len(x) : ~x[k].ok THEN [ok |-> FALSE, val |-> <<>>]
       ELSE IF Len(x) < 2 THEN [ok |-> FALSE, val |-> <<>>]
       ELSE IF x[1].val = 0 \/ x[2].val = 0 THEN [ok |-> FALSE, val |-> <<>>]
       ELSE [ok |-> TRUE, val |-> <<x[1].val, x[2].val>>]

\* Search::run, "image": the response exists, the results are stored under
\* (command.channel_id, message.id) with index 0 and the two buttons are registered.
SearchRun(key, n) ==
    /\ image_results[key] = NoResults
    /\ image_results' = [image_results EXCEPT ![key] = [n |-> n, i |-> 0]]
    /\ component_ids' = component_ids \cup {CustomId(key, "next"), CustomId(key, "prev")}
    /\ sevent' = Ran(sevent.seq, "run", MessagePath(key), key, 0, "Ok")
    /\ UNCHANGED <<presses, notSearchVars>>

\* next_handler: |x| x + 1; prev_handler: |x| x - 1.
Moved(button, x) == IF button = "next" THEN x + 1 ELSE x - 1

\* The index is taken as f gives it.
Unwrapped(x, len) == x

\* if x >= imgs.len() as isize { x = 0 } else if x < 0 { x = imgs.len() as isize - 1 }
Wrapped(x, len) == IF x >= len THEN 0 ELSE IF x < 0 THEN len - 1 ELSE x

\* button_handler on the button of a message: the new index is computed, the
\* response is updated and, when that succeeded, the index is stored.  A press
\* on a message without results panics at lock.get(..).unwrap().
Press(key, button, sent) ==
    /\ presses < MaxPresses
    /\ CustomId(key, button) \in component_ids
    /\ presses' = presses + 1
    /\ LET entry == image_results[key]
           x == Wrapped(Moved(button, entry.i), entry.n)
       IN IF entry = NoResults
          THEN /\ sevent' = Ran(presses + 1, button, CustomId(key, button), key, 0, "panic")
               /\ UNCHANGED image_results
          ELSE IF sent
          THEN /\ image_results' = [image_results EXCEPT ![key].i = x]
               /\ sevent' = Ran(presses + 1, button, CustomId(key, button), key, entry.i, "Ok")
          ELSE /\ sevent' = Ran(presses + 1, button, CustomId(key, button), key, entry.i, "Err")
               /\ UNCHANGED image_results
    /\ UNCHANGED <<component_ids, notSearchVars>>

\* The watcher has removed the registration of id and runs its cleanup,
\* buttons_cleanup_handler(id, http, cache).
Cleanup(id) ==
    /\ id \in component_ids
    /\ component_ids' = component_ids \ {id}
    /\ LET key == CleanupKey(id)
       IN IF ~key.ok
          THEN /\ sevent' = Ran(sevent.seq, "cleanup", id, <<>>, 0, "panic")
               /\ UNCHANGED image_results
          ELSE /\ sevent' = Ran(sevent.seq, "cleanup", id, key.val, 0, "Ok")
               /\ image_results' = [k \in Umids |-> IF k = key.val THEN NoResults
                                                     ELSE image_results[k]]
    /\ UNCHANGED <<presses, notSearchVars>>

SearchNext ==
    \/ \E key \in Umids, n \in ImageCounts : SearchRun(key, n)
    \/ \E key \in Umids, button \in {"next", "prev"}, sent \in BOOLEAN : Press(key, button, sent)
    \/ \E key \in Umids, button \in {"next", "prev"} : Cleanup(CustomId(key, button))

SpecSearch == Init /\ [][SearchNext]_vars

\* The (channel id, message id) pair under which Search::run stored the
\* results whose buttons carry this custom id.
StoredUnder(id) == CHOOSE key \in Umids : \E b \in {"next", "prev"} : CustomId(key, b) = id

\* C37: the cleanup of a registered custom id decodes it to the pair under
\* which the command stored the results, and does not panic.
C37_CleanupDecodesCustomId ==
    sevent.op = "cleanup" =>
        /\ sevent.outcome = "Ok"
        /\ sevent.key = StoredUnder(sevent.id)

\* C38: the stored index of a result set of length n stays within 0..n-1;
\* a press that is answered moves it by one, next from n-1 goes to 0 and prev
\* from 0 goes to n-1; nothing else moves it.
C38_IndexStaysInRange ==
    [][\A key \in Umids :
         LET old == image_results[key]
             new == image_results'[key]
         IN /\ new # NoResults => (new.n >= 1 /\ new.i \in 0..(new.n - 1))
            /\ (old # NoResults /\ new # NoResults) =>
                  /\ new.n = old.n
                  /\ IF sevent'.seq # sevent.seq /\ sevent'.key = key /\ sevent'.outcome = "Ok"
                     THEN /\ sevent'.before = old.i
                          /\ sevent'.op = "next" =>
                                new.i = (IF old.i = old.n - 1 THEN 0 ELSE old.i + 1)
                          /\ sevent'.op = "prev" =>
                                new.i = (IF old.i = 0 THEN old.n - 1 ELSE old.i - 1)
                     ELSE new.i = old.i
      ]_vars

\* Three presses were answered on a set of three images: prev from 0 and
\* next from 2 have both happened.
C38_Witness ==
    /\ presses = 3
    /\ sevent.op = "next"
    /\ sevent.outcome = "Ok"
    /\ sevent.before = 2
    /\ image_results[sevent.key] = [n |-> 3, i |-> 0]

(***************************************************************************)
(* IPC properties: the answer to GetCommandLogs                            *)
(***************************************************************************)

\* The events of the log that lie strictly between the two cutoffs, in the
\* order of the file, as the response carries them.
EventsBetween(lower, upper) ==
    LET Inside(row) == lower[1] < row.time[1] /\ row.time[1] < upper[1]
        kept == SelectSeq(logfile.rows, Inside)
    IN Msg("ResponseMessage", 3, <<>>, [i \in 1..Len(kept) |-> kept[i].time[1]])

\* The upper cutoff of the request: the one it carries or, when it carries
\* none, the time read from the clock.
UpperOf(action, clock) == IF action.a = <<>> THEN clock ELSE action.a[1]

\* C39: on a log that can be read to its end, GetCommandLogs is answered
\* with CommandLogs holding exactly the events e of the log with
\* lower_cutoff < e.time < upper_cutoff, in the order of the file, each once;
\* an absent upper_cutoff is the current time; and that response is the only
\* one the server writes for the request.
C39_LogsBetweenCutoffs ==
    (VariantOf(paction) = "GetCommandLogs" /\ LogFailure = "") =>
        /\ ppc \in {"read", "respond"} => (paction.a = <<>> => pupper \in Nows)
        /\ ppc = "respond" => presp = EventsBetween(paction.b, UpperOf(paction, pupper))
        /\ (ppc = "idle" /\ pout # <<>>) =>
               pout = <<EventsBetween(paction.b, UpperOf(paction, pupper))>>

\* A request without upper cutoff was answered from a log of three events,
\* of which two were kept and one was left out.
C39_Witness ==
    /\ VariantOf(paction) = "GetCommandLogs"
    /\ paction.a = <<>>
    /\ LogFailure = ""
    /\ ppc = "idle"
    /\ Len(logfile.rows) = 3
    /\ pout = <<Msg("ResponseMessage", 3, <<>>, <<50, 50>>)>>

====
